---------------------------- MODULE Spec2Model ----------------------------
(***************************************************************************)
(* SCERSE C Syntax Guardian: the static analyzer behind the editor.        *)
(*                                                                         *)
(* The module models CErrorDetectorEngine::analyzeCode of                  *)
(* c_error_detector.cpp (the revision of lines 1000-3716, the one with     *)
(* TypeSystem): Lexer, SymbolTable, TypeSystem, Parser.  A source text is  *)
(* a sequence of one-character strings; a token value and a diagnostic     *)
(* text are strings.  The lexer runs one getNextToken call per step, the   *)
(* parser one iteration of parseProgram's loop per step; the functions     *)
(* they call are operators over the lexer record and the parser record.    *)
(* This is the specification Spec.                                         *)
(*                                                                         *)
(* The stand-alone analyzer of MainWindow.cpp, the revision of the engine  *)
(* with the bracket counters and the check of return statements, is the    *)
(* specification SpecMW at the end of the module.                          *)
(***************************************************************************)
EXTENDS Integers, Sequences, FiniteSets, TLC

VARIABLES source, pc, lexer, tokens, parser, result

vars == <<source, pc, lexer, tokens, parser, result>>

-----------------------------------------------------------------------------
(* Characters.  NUL is the '\0' that currentChar and peekChar return past  *)
(* the end of the input; a source text may hold it as well.                *)

NUL == "NUL"

Digit == {"0", "1", "2", "3", "4", "5", "6", "7", "8", "9"}

Alpha == {"a", "b", "c", "d", "e", "f", "g", "h", "i", "j", "k", "l", "m",
          "n", "o", "p", "q", "r", "s", "t", "u", "v", "w", "x", "y", "z",
          "A", "B", "C", "D", "E", "F", "G", "H", "I", "J", "K", "L", "M",
          "N", "O", "P", "Q", "R", "S", "T", "U", "V", "W", "X", "Y", "Z"}

Space == {" ", "\t", "\n", "\r"}

isdigit(c) == c \in Digit
isalpha(c) == c \in Alpha
isalnum(c) == c \in Alpha \cup Digit
isspace(c) == c \in Space

-----------------------------------------------------------------------------
(* Token.  value is the std::string of the code as the sequence of its     *)
(* characters; Render is the text of such a sequence, ValueOf the text of  *)
(* a token's value.                                                        *)

Token(t, v, l, c) == [type |-> t, value |-> v, line |-> l, column |-> c]

RECURSIVE Render(_)
Render(t) == IF t = <<>> THEN "" ELSE Head(t) \o Render(Tail(t))

ValueOf(t) == Render(t.value)

keywords ==
    [w \in {"int", "float", "char", "void", "double", "if", "else", "while",
            "for", "do", "return", "break", "continue", "switch", "case",
            "default", "struct", "typedef", "sizeof", "const", "static",
            "extern", "auto"} |->
        CASE w = "int" -> "KW_INT"
          [] w = "float" -> "KW_FLOAT"
          [] w = "char" -> "KW_CHAR"
          [] w = "void" -> "KW_VOID"
          [] w = "double" -> "KW_DOUBLE"
          [] w = "if" -> "KW_IF"
          [] w = "else" -> "KW_ELSE"
          [] w = "while" -> "KW_WHILE"
          [] w = "for" -> "KW_FOR"
          [] w = "do" -> "KW_DO"
          [] w = "return" -> "KW_RETURN"
          [] w = "break" -> "KW_BREAK"
          [] w = "continue" -> "KW_CONTINUE"
          [] w = "switch" -> "KW_SWITCH"
          [] w = "case" -> "KW_CASE"
          [] w = "default" -> "KW_DEFAULT"
          [] w = "struct" -> "KW_STRUCT"
          [] w = "typedef" -> "KW_TYPEDEF"
          [] w = "sizeof" -> "KW_SIZEOF"
          [] w = "const" -> "KW_CONST"
          [] w = "static" -> "KW_STATIC"
          [] w = "extern" -> "KW_EXTERN"
          [] w = "auto" -> "KW_AUTO"]

-----------------------------------------------------------------------------
(* Lexer.  L is the record [input, pos, line, column, errors]; pos counts  *)
(* from 0 as in the code.  A lexical diagnostic is the record              *)
(* [line, column, text]: the code renders it "Line L:C - text".            *)

LexDiag(l, c, text) == [line |-> l, column |-> c, text |-> text]

NewLexer(src) == [input |-> src, pos |-> 0, line |-> 1, column |-> 1, errors |-> <<>>]

currentChar(L) == IF L.pos >= Len(L.input) THEN NUL ELSE L.input[L.pos + 1]

peekChar(L) == IF L.pos + 1 >= Len(L.input) THEN NUL ELSE L.input[L.pos + 2]

LexAdvance(L) ==
    IF L.pos < Len(L.input)
    THEN IF L.input[L.pos + 1] = "\n"
         THEN [L EXCEPT !.line = @ + 1, !.column = 1, !.pos = @ + 1]
         ELSE [L EXCEPT !.column = @ + 1, !.pos = @ + 1]
    ELSE L

RECURSIVE skipWhitespace(_)
skipWhitespace(L) ==
    IF isspace(currentChar(L)) THEN skipWhitespace(LexAdvance(L)) ELSE L

RECURSIVE SkipLine(_)
SkipLine(L) ==
    IF currentChar(L) # "\n" /\ currentChar(L) # NUL THEN SkipLine(LexAdvance(L)) ELSE L

RECURSIVE SkipBlock(_, _, _)
SkipBlock(L, cLine, cCol) ==
    IF currentChar(L) = NUL
    THEN [L EXCEPT !.errors = Append(@, LexDiag(cLine, cCol, "Unterminated comment"))]
    ELSE IF currentChar(L) = "*" /\ peekChar(L) = "/"
         THEN LexAdvance(LexAdvance(L))
         ELSE SkipBlock(LexAdvance(L), cLine, cCol)

skipComment(L) ==
    IF currentChar(L) = "/" /\ peekChar(L) = "/"
    THEN SkipLine(L)
    ELSE IF currentChar(L) = "/" /\ peekChar(L) = "*"
         THEN SkipBlock(LexAdvance(LexAdvance(L)), L.line, L.column)
         ELSE L

RECURSIVE SkipComments(_)
SkipComments(L) ==
    IF currentChar(L) = "/" /\ (peekChar(L) = "/" \/ peekChar(L) = "*")
    THEN SkipComments(skipWhitespace(skipComment(L)))
    ELSE L

(* The loops of lexNumber: R is [L, num, hasDec].                           *)
RECURSIVE NumberDigits(_)
NumberDigits(R) ==
    LET c == currentChar(R.L) IN
    IF isdigit(c) \/ c = "."
    THEN NumberDigits(
           [L |-> LexAdvance(
                    IF c = "." /\ R.hasDec
                    THEN [R.L EXCEPT !.errors = Append(@,
                            LexDiag(R.L.line, R.L.column,
                                    "Invalid numeric literal: multiple decimal points"))]
                    ELSE R.L),
            num |-> Append(R.num, c),
            hasDec |-> R.hasDec \/ c = "."])
    ELSE R

RECURSIVE NumberTail(_)
NumberTail(R) ==
    IF isalnum(currentChar(R.L))
    THEN NumberTail([R EXCEPT !.L = LexAdvance(@), !.num = Append(@, currentChar(R.L))])
    ELSE R

lexNumber(L) ==
    LET R == NumberDigits([L |-> L, num |-> <<>>, hasDec |-> FALSE]) IN
    IF isalpha(currentChar(R.L))
    THEN LET E == [R.L EXCEPT !.errors = Append(@,
                      LexDiag(R.L.line, R.L.column, "Invalid numeric literal"))]
             T == NumberTail([R EXCEPT !.L = E])
         IN  [tok |-> Token("TOK_ERROR", T.num, L.line, L.column), L |-> T.L]
    ELSE [tok |-> Token("TOK_NUMBER", R.num, L.line, L.column), L |-> R.L]

RECURSIVE IdentChars(_)
IdentChars(R) ==
    IF isalnum(currentChar(R.L)) \/ currentChar(R.L) = "_"
    THEN IdentChars([L |-> LexAdvance(R.L), id |-> Append(R.id, currentChar(R.L))])
    ELSE R

(* lexIdentifier without the consumption of the characters it read.       *)
lexIdentifier_NoConsume(L) ==
    LET R == IdentChars([L |-> L, id |-> <<>>]) IN
    [tok |-> Token("TOK_IDENTIFIER", R.id, L.line, L.column), L |-> L]

lexIdentifier(L) ==
    LET R == IdentChars([L |-> L, id |-> <<>>]) IN
    [tok |-> Token(IF Render(R.id) \in DOMAIN keywords THEN keywords[Render(R.id)]
                   ELSE "TOK_IDENTIFIER",
                   R.id, L.line, L.column),
     L |-> R.L]

(* The scanning loop lexString and lexChar share, apart from the messages  *)
(* and lexChar's count: R is [L, result, closed, charCount]; sL, sC is     *)
(* the literal's start and what the kind of literal ("string literal",     *)
(* "character literal") with its newline message.                          *)
RECURSIVE LiteralLoop(_, _, _, _, _)
LiteralLoop(R, quote, sL, sC, nlText) ==
    LET c == currentChar(R.L) IN
    IF c = NUL THEN R
    ELSE IF c = quote
         THEN [R EXCEPT !.L = LexAdvance(@), !.result = Append(@, quote), !.closed = TRUE]
    ELSE IF c = "\n"
         THEN [R EXCEPT !.L.errors = Append(@, LexDiag(sL, sC, nlText))]
    ELSE IF c = "\\"
         THEN LET A == LexAdvance(R.L) IN
              IF currentChar(A) # NUL
              THEN LiteralLoop([R EXCEPT !.L = LexAdvance(A),
                                         !.result = @ \o <<c, currentChar(A)>>,
                                         !.charCount = @ + 2],
                               quote, sL, sC, nlText)
              ELSE LiteralLoop([R EXCEPT !.L = A, !.result = Append(@, c)],
                               quote, sL, sC, nlText)
    ELSE LiteralLoop([R EXCEPT !.L = LexAdvance(@), !.result = Append(@, c),
                               !.charCount = @ + 1],
                     quote, sL, sC, nlText)

lexString(L) ==
    LET quote == currentChar(L)
        R == LiteralLoop([L |-> LexAdvance(L), result |-> <<quote>>, closed |-> FALSE,
                          charCount |-> 0],
                         quote, L.line, L.column,
                         "Unterminated string literal (newline in string)")
    IN  IF ~R.closed
        THEN [tok |-> Token("TOK_ERROR", R.result, L.line, L.column),
              L |-> [R.L EXCEPT !.errors = Append(@,
                        LexDiag(L.line, L.column,
                                "Unterminated string literal (EOF reached)"))]]
        ELSE [tok |-> Token("TOK_STRING", R.result, L.line, L.column), L |-> R.L]

lexChar(L) ==
    LET quote == currentChar(L)
        R == LiteralLoop([L |-> LexAdvance(L), result |-> <<quote>>, closed |-> FALSE,
                          charCount |-> 0],
                         quote, L.line, L.column,
                         "Unterminated character literal (newline in char)")
    IN  IF ~R.closed
        THEN [tok |-> Token("TOK_ERROR", R.result, L.line, L.column),
              L |-> [R.L EXCEPT !.errors = Append(@,
                        LexDiag(L.line, L.column,
                                "Unterminated character literal (EOF reached)"))]]
        ELSE [tok |-> Token("TOK_CHAR", R.result, L.line, L.column),
              L |-> IF R.charCount = 0
                    THEN [R.L EXCEPT !.errors = Append(@,
                            LexDiag(L.line, L.column, "Empty character literal"))]
                    ELSE IF R.charCount > 1
                    THEN [R.L EXCEPT !.errors = Append(@,
                            LexDiag(L.line, L.column, "Multi-character constant"))]
                    ELSE R.L]

RECURSIVE PreprocessorLine(_)
PreprocessorLine(R) ==
    IF currentChar(R.L) # "\n" /\ currentChar(R.L) # NUL
    THEN PreprocessorLine([L |-> LexAdvance(R.L), prep |-> Append(R.prep, currentChar(R.L))])
    ELSE R

(* The one-character tokens of getNextToken's switch.                       *)
SingleCharToken ==
    [c \in {"(", ")", "{", "}", "[", "]", ";", ",", ".", ":", "?", "*", "/", "%",
            "^", "~"} |->
        CASE c = "(" -> "LPAREN"
          [] c = ")" -> "RPAREN"
          [] c = "{" -> "LBRACE"
          [] c = "}" -> "RBRACE"
          [] c = "[" -> "LBRACKET"
          [] c = "]" -> "RBRACKET"
          [] c = ";" -> "SEMICOLON"
          [] c = "," -> "COMMA"
          [] c = "." -> "DOT"
          [] c = ":" -> "COLON"
          [] c = "?" -> "QUESTION"
          [] c = "*" -> "OP_STAR"
          [] c = "/" -> "OP_SLASH"
          [] c = "%" -> "OP_PERCENT"
          [] c = "^" -> "OP_BITXOR"
          [] c = "~" -> "OP_BITNOT"]

(* The two-character operators: first character, second character, type.   *)
DoubleCharToken ==
    { <<"+", "+", "OP_INC">>, <<"+", "=", "OP_PLUSEQ">>,
      <<"-", "-", "OP_DEC">>, <<"-", "=", "OP_MINUSEQ">>, <<"-", ">", "ARROW">>,
      <<"=", "=", "OP_EQ">>, <<"!", "=", "OP_NE">>,
      <<"<", "=", "OP_LE">>, <<">", "=", "OP_GE">>,
      <<"&", "&", "OP_AND">>, <<"|", "|", "OP_OR">> }

(* What the first character of such an operator is when it stands alone.    *)
OperatorStart ==
    [c \in {"+", "-", "=", "!", "<", ">", "&", "|"} |->
        CASE c = "+" -> "OP_PLUS"
          [] c = "-" -> "OP_MINUS"
          [] c = "=" -> "OP_ASSIGN"
          [] c = "!" -> "OP_NOT"
          [] c = "<" -> "OP_LT"
          [] c = ">" -> "OP_GT"
          [] c = "&" -> "OP_BITAND"
          [] c = "|" -> "OP_BITOR"]

getNextToken(L0) ==
    LET L == SkipComments(skipWhitespace(L0))
        sL == L.line
        sC == L.column
        c == currentChar(L)
    IN  IF c = NUL THEN [tok |-> Token("TOK_EOF", <<>>, sL, sC), L |-> L]
        ELSE IF c = "#"
        THEN LET R == PreprocessorLine([L |-> L, prep |-> <<>>]) IN
             [tok |-> Token("PREPROCESSOR", R.prep, sL, sC), L |-> R.L]
        ELSE IF isdigit(c) THEN lexNumber(L)
        ELSE IF isalpha(c) \/ c = "_" THEN lexIdentifier(L)
        ELSE IF c = "\"" THEN lexString(L)
        ELSE IF c = "'" THEN lexChar(L)
        ELSE IF c \in DOMAIN SingleCharToken
        THEN [tok |-> Token(SingleCharToken[c], <<c>>, sL, sC), L |-> LexAdvance(L)]
        ELSE IF c \in DOMAIN OperatorStart
        THEN LET A == LexAdvance(L)
                 two == {d \in DoubleCharToken : d[1] = c /\ d[2] = currentChar(A)}
             IN  IF two # {}
                 THEN LET d == CHOOSE d \in two : TRUE IN
                      [tok |-> Token(d[3], <<d[1], d[2]>>, sL, sC), L |-> LexAdvance(A)]
                 ELSE [tok |-> Token(OperatorStart[c], <<c>>, sL, sC), L |-> A]
        ELSE [tok |-> Token("TOK_ERROR", <<c>>, sL, sC),
              L |-> LexAdvance([L EXCEPT !.errors = Append(@,
                        LexDiag(L.line, L.column, "Invalid character: '" \o c \o "'"))])]

-----------------------------------------------------------------------------
(* SuggestionEngine.  getSuggestion searches the message for each trigger  *)
(* in turn (string::find).  A message of the parser is a fixed head        *)
(* followed by token text; the token texts of the model hold no trigger,   *)
(* so the search is decided by the head: Triggers(head) is the set of      *)
(* triggers that occur in it.                                              *)

suggestions ==
    << [error |-> "Expected ';'",
        suggestion |-> "Add a semicolon at the end of the statement",
        example |-> "int x = 5;  // <- Correct"],
       [error |-> "Expected '('",
        suggestion |-> "Control structures need parentheses around condition",
        example |-> "if (x > 5) { } while (y < 10) { }"],
       [error |-> "Expected ')'",
        suggestion |-> "Close the opening parenthesis - check for balanced parentheses",
        example |-> "function(arg1, arg2);  // <- All parentheses balanced"],
       [error |-> "Expected '}'",
        suggestion |-> "Close the opening brace - check for balanced braces",
        example |-> "void func() { int x = 5; }  // <- Each { has matching }"],
       [error |-> "Undeclared variable",
        suggestion |-> "Declare variable before using: type varname;",
        example |-> "int x; x = 5;  // <- Declare BEFORE using"],
       [error |-> "Redeclaration",
        suggestion |-> "Variable already exists in this scope. Use different name",
        example |-> "int x = 5; int y = 10;  // <- Use different name"],
       [error |-> "Invalid numeric literal",
        suggestion |-> "Check for multiple decimals or invalid characters",
        example |-> "float x = 3.14;  // <- Correct"],
       [error |-> "Unterminated string",
        suggestion |-> "String literals must have opening AND closing quotes",
        example |-> "char* s = \"hello\";  // <- Both sides have quotes"],
       [error |-> "Unterminated character",
        suggestion |-> "Character literals must have opening AND closing quotes",
        example |-> "char c = 'A';  // <- Both sides have quotes"],
       [error |-> "Multi-character constant",
        suggestion |-> "Character literals can only contain ONE character",
        example |-> "char c = 'A';  // <- Correct"],
       [error |-> "Invalid character",
        suggestion |-> "Remove invalid characters. Common: @, #, $ in wrong context",
        example |-> "int x = 5 + 10;  // <- Correct"],
       [error |-> "Unexpected token",
        suggestion |-> "This token not expected in position. Check grammar",
        example |-> "int x = 5 * 10;  // <- Correct"],
       [error |-> "Expected type",
        suggestion |-> "Type specifier needed: int, float, char, void, double",
        example |-> "int x;  float y;  char z;  // <- All have types"],
       [error |-> "Missing #endif",
        suggestion |-> "Preprocessor conditional #if must have matching #endif",
        example |-> "#if defined(DEBUG)\\n// code\\n#endif  // <- Proper pairing"] >>

Triggers(head) ==
    CASE head = "Redeclaration of '" -> {"Redeclaration"}
      [] head = "Undeclared variable '" -> {"Undeclared variable"}
      [] head \in {"Expected ';'", "Expected '('", "Expected ')'", "Expected '}'",
                   "Expected type"} -> {head}
      [] OTHER -> {}

getSuggestion(head) ==
    LET hit == {i \in 1..Len(suggestions) : suggestions[i].error \in Triggers(head)} IN
    IF hit = {} THEN ""
    ELSE LET i == CHOOSE i \in hit : \A j \in hit : i <= j IN
         "SUGGESTION: " \o suggestions[i].suggestion \o " | EXAMPLE: " \o suggestions[i].example

-----------------------------------------------------------------------------
(* StandardLibrary                                                         *)

stdioFunctions == {"printf", "scanf", "fprintf", "fscanf", "sprintf", "sscanf",
                   "fopen", "fclose", "fread", "fwrite", "fgets", "fputs",
                   "getchar", "putchar", "gets", "puts", "perror"}

stdlibFunctions == {"malloc", "calloc", "realloc", "free", "exit", "abort",
                    "atoi", "atof", "atol", "rand", "srand", "qsort"}

stringFunctions == {"strcpy", "strncpy", "strlen", "strcmp", "strcat",
                    "strchr", "strstr", "memset", "memcpy", "memmove"}

mathFunctions == {"sin", "cos", "tan", "sqrt", "pow", "abs", "floor", "ceil"}

isStandardFunction(n) ==
    n \in stdioFunctions \cup stdlibFunctions \cup stringFunctions \cup mathFunctions

(* functionSignatures, each as the parameter text between '(' and ')' cut   *)
(* at its commas: what the argument-count check reads.                      *)
functionSignatures ==
    [n \in {"printf", "scanf", "malloc", "free", "strlen"} |->
        CASE n = "printf" -> <<"const char* format", " ...">>
          [] n = "scanf" -> <<"const char* format", " ...">>
          [] n = "malloc" -> <<"size_t size">>
          [] n = "free" -> <<"void* ptr">>
          [] n = "strlen" -> <<"const char* s">>]

-----------------------------------------------------------------------------
(* TypeSystem.  A type descriptor is the string the code builds, kept as   *)
(* the sequence of the pieces it is concatenated from: <<"int">>,          *)
(* <<"int", "*">>, <<"int", "[]">>, <<"struct ", "P">>, <<"const ", "int">>,*)
(* <<"typedef:", "int">>.  Two descriptors are the same string exactly     *)
(* when they are the same sequence, since a piece is a name, "*", "[]" or  *)
(* one of the fixed prefixes.                                              *)

Ty(s) == <<s>>

isInteger(t) == t \in {Ty("int"), Ty("long"), Ty("short")}
isFloat(t) == t \in {Ty("float"), Ty("double")}
isChar(t) == t = Ty("char")
isString(t) == t = Ty("string")
isPointer(t) == Len(t) > 1 /\ t[Len(t)] = "*"
isVoid(t) == t = Ty("void")
isStruct(t) == Len(t) > 0 /\ t[1] = "struct "
basePointerType(t) == SubSeq(t, 1, Len(t) - 1)

areTypesCompatible(lhs, rhs) ==
    IF lhs = rhs THEN TRUE
    ELSE IF isVoid(lhs) \/ isVoid(rhs) THEN FALSE
    ELSE IF isPointer(lhs) /\ rhs = Ty("0") THEN TRUE
    ELSE IF isPointer(lhs) \/ isPointer(rhs)
         THEN IF isPointer(lhs) /\ isPointer(rhs)
              THEN LET a == basePointerType(lhs)
                       b == basePointerType(rhs)
                   IN  a = b \/ a = Ty("void") \/ b = Ty("void")
              ELSE FALSE
    ELSE IF isStruct(lhs) \/ isStruct(rhs) THEN lhs = rhs
    ELSE IF isString(lhs) \/ isString(rhs) THEN lhs = rhs
    ELSE IF isChar(lhs) THEN isChar(rhs)
    ELSE IF isChar(rhs) THEN isInteger(lhs) \/ isFloat(lhs)
    ELSE IF isInteger(lhs) /\ isInteger(rhs) THEN TRUE
    ELSE IF isInteger(lhs) /\ isFloat(rhs) THEN FALSE
    ELSE IF isFloat(lhs) /\ isInteger(rhs) THEN TRUE
    ELSE IF isFloat(lhs) /\ isFloat(rhs) THEN TRUE
    ELSE FALSE

numericTypes == {Ty("int"), Ty("float"), Ty("double"), Ty("char")}

(* lhs.find("*char"): a '*' directly followed by the text "char".           *)
hasStarChar(t) == \E i \in 1..(Len(t) - 1) : t[i] = "*" /\ t[i + 1] = "char"

getOperationResultType(lhs, rhs, op) ==
    IF op \in {"+", "-", "*", "/"}
    THEN IF lhs \in numericTypes /\ rhs \in numericTypes
         THEN IF lhs = Ty("float") \/ rhs = Ty("float") THEN Ty("float")
              ELSE IF lhs = Ty("double") \/ rhs = Ty("double") THEN Ty("double")
              ELSE Ty("int")
         ELSE IF (lhs = Ty("string") \/ hasStarChar(lhs)) /\ op = "+" THEN Ty("string")
         ELSE Ty("INVALID")
    ELSE IF op \in {"==", "!=", "<", ">", "<=", ">="}
    THEN IF areTypesCompatible(lhs, rhs) THEN Ty("int") ELSE Ty("INVALID")
    ELSE IF op \in {"&&", "||"} THEN Ty("int")
    ELSE IF op \in {"&", "|", "^", "<<", ">>"}
    THEN IF lhs \in numericTypes /\ rhs \in numericTypes THEN Ty("int") ELSE Ty("INVALID")
    ELSE Ty("UNKNOWN")

-----------------------------------------------------------------------------
(* SymbolTable.  scopes is the vector of maps, innermost last; a map is a  *)
(* function from the names declared in it to VarInfo.                      *)

VarInfo(t, l, c) == [type |-> t, line |-> l, column |-> c]

NewSymbolTable == << <<>> >>

pushScope(scopes) == Append(scopes, <<>>)

(* popScope that leaves the innermost scope in place.                       *)
popScope_Keep(scopes) == scopes

popScope(scopes) == IF scopes # <<>> THEN SubSeq(scopes, 1, Len(scopes) - 1) ELSE scopes

InScope(scope, n) == n \in DOMAIN scope

(* declare that finds every name already declared.                         *)
declare_Clash(scopes, n, t, l, c) == [ok |-> FALSE, scopes |-> scopes, ub |-> FALSE]

(* declare without the look-up in the innermost scope.                      *)
declare_NoCheck(scopes, n, t, l, c) ==
    LET top == scopes[Len(scopes)] IN
    [ok |-> TRUE,
     scopes |-> [scopes EXCEPT ![Len(scopes)] =
                    [m \in DOMAIN top \cup {n} |->
                        IF m = n THEN VarInfo(t, l, c) ELSE top[m]]],
     ub |-> FALSE]

(* declare: [ok, scopes].  The code reads scopes.back() without a check;   *)
(* on an empty vector that is undefined, reported here as ub.              *)
declare(scopes, n, t, l, c) ==
    IF scopes = <<>> THEN [ok |-> FALSE, scopes |-> scopes, ub |-> TRUE]
    ELSE LET top == scopes[Len(scopes)] IN
         IF InScope(top, n) THEN [ok |-> FALSE, scopes |-> scopes, ub |-> FALSE]
         ELSE [ok |-> TRUE,
               scopes |-> [scopes EXCEPT ![Len(scopes)] =
                              [m \in DOMAIN top \cup {n} |->
                                  IF m = n THEN VarInfo(t, l, c) ELSE top[m]]],
               ub |-> FALSE]

getType(scopes, n) ==
    LET found == {i \in 1..Len(scopes) : InScope(scopes[i], n)} IN
    IF found # {}
    THEN scopes[CHOOSE i \in found : \A j \in found : j <= i][n].type
    ELSE IF isStandardFunction(n) THEN Ty("function")
    ELSE Ty("UNKNOWN")

exists(scopes, n) ==
    isStandardFunction(n) \/ \E i \in 1..Len(scopes) : InScope(scopes[i], n)

-----------------------------------------------------------------------------
(* Parser.  P is the record [tokens, index, sym, errors, lastIndex,        *)
(* scopeDepth] of the class, with three fields of the model: ret, the      *)
(* value the last called function returned; ub, set when sym.declare read  *)
(* the back of an empty scope vector; stalled, set when an iteration of a  *)
(* loop ended where it began, which in the code is an iteration that       *)
(* repeats forever.  A syntax diagnostic is the record                     *)
(* [prefix, line, column, text, suggestion]; the code renders the message  *)
(* prefix L:C - text.                                                      *)

NewParser(toks) ==
    [tokens |-> toks, index |-> 0, sym |-> NewSymbolTable, errors |-> <<>>,
     lastIndex |-> 0, scopeDepth |-> 0, ret |-> <<>>, ub |-> FALSE, stalled |-> FALSE]

curr(P) ==
    IF P.index < Len(P.tokens) THEN P.tokens[P.index + 1] ELSE Token("TOK_EOF", <<>>, 1, 1)

peek(P) ==
    IF P.index + 1 < Len(P.tokens) THEN P.tokens[P.index + 2] ELSE Token("TOK_EOF", <<>>, 1, 1)

advance(P) == IF P.index < Len(P.tokens) THEN [P EXCEPT !.index = @ + 1] ELSE P

SynDiag(prefix, l, c, text, sug) ==
    [prefix |-> prefix, line |-> l, column |-> c, text |-> text, suggestion |-> sug]

(* errors.push_back of a "Line L:C - " message at token t.                  *)
Report(P, t, text, sug) ==
    [P EXCEPT !.errors = Append(@, SynDiag("Line", t.line, t.column, text, sug))]

(* A warning that is not recorded.                                          *)
Warn_Dropped(P, t, text, sug) == P

(* The same for a "Warning: Line L:C - " message.                           *)
Warn(P, t, text, sug) ==
    [P EXCEPT !.errors = Append(@, SynDiag("Warning: Line", t.line, t.column, text, sug))]

Returning(P, v) == [P EXCEPT !.ret = v]

(* sym.declare with the result dropped or kept in ret.                      *)
Declare(P, n, t, l, c) ==
    LET d == declare(P.sym, n, t, l, c) IN
    [P EXCEPT !.sym = d.scopes, !.ub = @ \/ d.ub, !.ret = d.ok]

(* forceAdvance without the skip of the token nothing consumed.           *)
forceAdvance_NoSkip(P) == [P EXCEPT !.lastIndex = P.index]

forceAdvance(P) ==
    LET Q == IF P.index = P.lastIndex
             THEN advance(Report(P, curr(P),
                                 "Skipping invalid token '" \o ValueOf(curr(P)) \o "'",
                                 getSuggestion("Skipping invalid token '")))
             ELSE P
    IN  [Q EXCEPT !.lastIndex = Q.index]

expect(P, type, desc) ==
    IF curr(P).type # type
    THEN Report(P, curr(P),
                "Expected '" \o desc \o "' but got '" \o ValueOf(curr(P)) \o "'",
                getSuggestion("Expected '" \o desc \o "'"))
    ELSE advance(P)

isTypedefName(t) == Len(t) > 0 /\ t[1] = "typedef:"

isTypeToken(P, t) ==
    \/ t.type \in {"KW_INT", "KW_FLOAT", "KW_CHAR", "KW_DOUBLE", "KW_VOID",
                   "KW_STRUCT", "KW_AUTO"}
    \/ t.type = "TOK_IDENTIFIER" /\ isTypedefName(getType(P.sym, ValueOf(t)))

isComparisonOp(t) == t.type \in {"OP_LT", "OP_GT", "OP_LE", "OP_GE", "OP_EQ", "OP_NE"}

isOp(t) ==
    t.type \in {"OP_PLUS", "OP_MINUS", "OP_STAR", "OP_SLASH", "OP_ASSIGN"} \/ isComparisonOp(t)

isValidUnaryOp(type) ==
    type \in {"OP_MINUS", "OP_PLUS", "OP_NOT", "OP_BITNOT", "OP_INC", "OP_DEC"}

isValidBinaryOp(type) ==
    type \in {"OP_PLUS", "OP_MINUS", "OP_STAR", "OP_SLASH", "OP_PERCENT", "OP_ASSIGN",
              "OP_EQ", "OP_NE", "OP_LT", "OP_GT", "OP_LE", "OP_GE", "OP_AND", "OP_OR",
              "OP_BITAND", "OP_BITOR", "OP_BITXOR"}

(* while (curr().type == OP_STAR) { type += "*"; advance(); }: the parser   *)
(* after the stars, the type in ret.                                        *)
RECURSIVE Stars(_, _)
Stars(P, t) ==
    IF curr(P).type = "OP_STAR" THEN Stars(advance(P), Append(t, "*")) ELSE Returning(P, t)

PushScope(P) == [P EXCEPT !.sym = pushScope(@)]

(* PopScope that leaves the scope on the vector.                           *)
PopScope_Skip(P) == P

PopScope(P) == [P EXCEPT !.sym = popScope(@)]

(* std::stoi of a numeric literal: the value of its leading digits.         *)
DigitValue(c) == CHOOSE n \in 0..9 : ToString(n) = c

RECURSIVE StoiFrom(_, _)
StoiFrom(v, acc) ==
    IF v # <<>> /\ isdigit(Head(v)) THEN StoiFrom(Tail(v), 10 * acc + DigitValue(Head(v)))
    ELSE acc

stoi(v) == StoiFrom(v, 0)

maxIter == 10000


(* A call of one parse function from another: Call(f, P, a) is f applied   *)
(* to the parser P and the further arguments a.                             *)
RECURSIVE Call(_, _, _)

(* The operator loop of parseExpressionWithType: P.ret is the type so far.  *)
RECURSIVE ExpressionWithTypeLoop(_)
ExpressionWithTypeLoop(P) ==
    IF ~isOp(curr(P)) THEN P
    ELSE LET type == P.ret
             op == curr(P)
             R == Call("parsePrimaryWithType", advance(P), <<>>)
             rhsType == R.ret
             resultType == getOperationResultType(type, rhsType, ValueOf(op))
         IN  IF type # Ty("UNKNOWN") /\ rhsType # Ty("UNKNOWN")
             THEN ExpressionWithTypeLoop(
                    Returning(IF resultType = Ty("INVALID")
                              THEN Report(R, op,
                                          "Type error: cannot apply '" \o ValueOf(op) \o "' to '"
                                             \o Render(type) \o "' and '" \o Render(rhsType) \o "'",
                                          "SUGGESTION: Ensure both operands are compatible types")
                              ELSE R,
                              IF resultType = Ty("INVALID") \/ resultType = Ty("UNKNOWN")
                              THEN type ELSE resultType))
             ELSE ExpressionWithTypeLoop(Returning(R, type))

parseExpressionWithType(P) == ExpressionWithTypeLoop(Call("parsePrimaryWithType", P, <<>>))

(* The "!==" check that parseExpression and parseExpressionWithFullType     *)
(* make before they read the operator.                                      *)
OperatorSequenceCheck(P) ==
    IF (curr(P).type = "OP_ASSIGN" \/ curr(P).type = "OP_EQ") /\ peek(P).type = "OP_EQ"
    THEN advance(Report(P, curr(P), "Invalid operator sequence: '!==' is not valid in C",
                        "SUGGESTION: Use '!=' for inequality"))
    ELSE P

RECURSIVE ExpressionLoop(_)
ExpressionLoop(P) ==
    IF ~isOp(curr(P)) THEN P
    ELSE LET type == P.ret
             C == OperatorSequenceCheck(P)
             op == curr(C)
             A == advance(C)
         IN  IF curr(A).type \in {"SEMICOLON", "RPAREN", "RBRACE", "COMMA"}
             THEN Report(A, op,
                         "Incomplete expression: missing operand after '" \o ValueOf(op) \o "'",
                         "SUGGESTION: Complete the expression. Example: x + y")
             ELSE LET R == Call("parsePrimaryWithType", A, <<>>)
                      rhsType == R.ret
                      resultType == getOperationResultType(type, rhsType, ValueOf(op))
                  IN  IF type # Ty("UNKNOWN") /\ rhsType # Ty("UNKNOWN")
                      THEN ExpressionLoop(
                             Returning(IF resultType = Ty("INVALID")
                                       THEN Report(R, op,
                                                   "Type error: cannot apply '" \o ValueOf(op)
                                                      \o "' to '" \o Render(type) \o "' and '"
                                                      \o Render(rhsType) \o "'",
                                                   "SUGGESTION: Ensure both operands are compatible types")
                                       ELSE R,
                                       IF resultType = Ty("INVALID") \/ resultType = Ty("UNKNOWN")
                                       THEN type ELSE resultType))
                      ELSE ExpressionLoop(Returning(R, type))

parseExpression(P) == ExpressionLoop(Call("parsePrimaryWithType", P, <<>>))

RECURSIVE ExpressionWithFullTypeLoop(_)
ExpressionWithFullTypeLoop(P) ==
    IF ~isValidBinaryOp(curr(P).type) THEN P
    ELSE LET lhs == P.ret
             C == OperatorSequenceCheck(P)
             op == curr(C)
             A == advance(C)
             R == Call("parsePrimaryWithType", A, <<>>)
             rhs == R.ret
             res == getOperationResultType(lhs, rhs, ValueOf(op))
         IN  IF lhs # Ty("UNKNOWN") /\ rhs # Ty("UNKNOWN")
             THEN IF res = Ty("INVALID")
                  THEN ExpressionWithFullTypeLoop(
                         Returning(Report(R, op,
                                          "Type mismatch: cannot apply operator '" \o ValueOf(op)
                                             \o "' between '" \o Render(lhs) \o "' and '"
                                             \o Render(rhs) \o "'",
                                          "SUGGESTION: Convert operands or use compatible types."),
                                   lhs))
                  ELSE ExpressionWithFullTypeLoop(Returning(R, res))
             ELSE ExpressionWithFullTypeLoop(Returning(R, lhs))

parseExpressionWithFullType(P) == ExpressionWithFullTypeLoop(Call("parsePrimaryWithType", P, <<>>))

isModifiableLvalue(P, token, symType) ==
    IF token.type # "TOK_IDENTIFIER" THEN FALSE
    ELSE IF symType = Ty("function") THEN FALSE
    ELSE IF isStandardFunction(ValueOf(token)) THEN FALSE
    ELSE IF symType = Ty("UNKNOWN") \/ symType = <<>>
            \/ (symType = Ty("int") /\ ~exists(P.sym, ValueOf(token)))
    THEN FALSE
    ELSE TRUE


parseTypedef(P0) ==
    LET P == advance(P0) IN
    IF ~isTypeToken(P, curr(P))
    THEN Report(P, curr(P), "Expected type after typedef",
                "SUGGESTION: typedef <existing_type> <new_name>;")
    ELSE LET v == ValueOf(curr(P))
             A == advance(P)
             B == IF v = "struct" /\ curr(A).type = "TOK_IDENTIFIER"
                  THEN Returning(advance(A), <<"struct ", ValueOf(curr(A))>>)
                  ELSE Returning(A, Ty(v))
             C == Stars(B, B.ret)
         IN  IF curr(C).type # "TOK_IDENTIFIER"
             THEN Report(C, curr(C), "Expected new type name in typedef",
                         "SUGGESTION: Provide name for the new type")
             ELSE Declare(expect(advance(C), "SEMICOLON", ";"),
                          ValueOf(curr(C)), <<"typedef:">> \o C.ret, 0, 0)

(* The member loop of parseStruct.                                          *)
RECURSIVE StructMembers(_)
StructMembers(P) ==
    IF curr(P).type = "RBRACE" \/ curr(P).type = "TOK_EOF" THEN P
    ELSE LET Q == IF isTypeToken(P, curr(P))
                  THEN LET S == Stars(advance(P), Ty(ValueOf(curr(P)))) IN
                       IF curr(S).type = "TOK_IDENTIFIER"
                       THEN expect(advance(S), "SEMICOLON", ";")
                       ELSE advance(Report(S, curr(S), "Expected member name in struct", ""))
                  ELSE advance(Report(P, curr(P), "Expected type in struct member", ""))
         IN  IF Q.index = P.index THEN [Q EXCEPT !.stalled = TRUE] ELSE StructMembers(Q)

parseStruct(P0) ==
    LET P == advance(P0) IN
    IF curr(P).type # "TOK_IDENTIFIER"
    THEN Report(P, curr(P), "Expected struct name",
                "SUGGESTION: struct <name> { ... } or struct <name> <variable>;")
    ELSE
    LET structName == ValueOf(curr(P))
        A == advance(P)
    IN
    IF curr(A).type = "LBRACE"
    THEN LET B == expect(StructMembers(advance(A)), "RBRACE", "}") IN
         IF curr(B).type = "SEMICOLON"
         THEN Declare(advance(B), structName, Ty("struct_type"), 0, 0)
         ELSE IF curr(B).type = "TOK_IDENTIFIER" \/ curr(B).type = "OP_STAR"
         THEN LET S == Stars(B, <<"struct ", structName>>) IN
              IF curr(S).type = "TOK_IDENTIFIER"
              THEN Call("parseVarDecl", advance(S), <<S.ret, ValueOf(curr(S)), curr(S)>>)
              ELSE Declare(Report(S, curr(S),
                                  "Expected variable name after struct definition",
                                  "SUGGESTION: struct " \o structName \o " { ... } var;"),
                           structName, Ty("struct_type"), 0, 0)
         ELSE Declare(Report(B, curr(B),
                             "Expected ';' or variable after struct definition",
                             "SUGGESTION: struct " \o structName \o " { ... }; or struct "
                                \o structName \o " var;"),
                      structName, Ty("struct_type"), 0, 0)
    ELSE
    LET S == IF curr(A).type = "OP_STAR" \/ curr(A).type = "TOK_IDENTIFIER"
             THEN Stars(A, <<"struct ", structName>>)
             ELSE A
    IN
    IF (curr(A).type = "OP_STAR" \/ curr(A).type = "TOK_IDENTIFIER")
       /\ curr(S).type = "TOK_IDENTIFIER"
    THEN Call("parseVarDecl", advance(S), <<S.ret, ValueOf(curr(S)), curr(S)>>)
    ELSE IF curr(S).type = "SEMICOLON"
    THEN Declare(advance(S), structName, Ty("struct_forward"), 0, 0)
    ELSE Report(S, curr(S), "Invalid struct syntax",
                "SUGGESTION: struct <name> { ... }; or struct <name> <var>;")

parseDeclOrFunc(P0) ==
    LET v == ValueOf(curr(P0))
        P == advance(P0)
    IN
    IF v = "struct" /\ curr(P).type # "TOK_IDENTIFIER"
    THEN advance(Report(P, curr(P), "Expected struct name",
                        "SUGGESTION: struct <name> { ... } ; or struct <name> var;"))
    ELSE IF v = "struct" /\ curr(advance(P)).type = "LBRACE"
    THEN Call("parseStruct", [P EXCEPT !.index = P.index + 1 - 2], <<>>)
    ELSE
    LET A == IF v = "struct" THEN advance(P) ELSE P
        S == Stars(A, IF v = "struct" THEN <<"struct ", ValueOf(curr(P))>> ELSE Ty(v))
    IN
    IF curr(S).type # "TOK_IDENTIFIER"
    THEN advance(Report(S, curr(S), "Expected identifier", getSuggestion("Expected identifier")))
    ELSE LET nameTok == curr(S)
             B == advance(S)
         IN  IF curr(B).type = "LPAREN"
             THEN Call("parseFunction", B, <<ValueOf(nameTok), nameTok>>)
             ELSE Call("parseVarDecl", B, <<S.ret, ValueOf(nameTok), nameTok>>)

(* The argument loop of a call: P.ret counts the arguments parsed.         *)
RECURSIVE CallArguments(_, _)
CallArguments(P, n) ==
    LET R == Call("parseExpressionWithFullType", P, <<>>) IN
    IF curr(R).type = "COMMA" THEN CallArguments(advance(R), n + 1)
    ELSE Returning(R, n + 1)

parsePrimaryWithType(P) ==
    LET t == curr(P) IN
    IF t.type = "TOK_IDENTIFIER"
    THEN LET type == getType(P.sym, ValueOf(t))
             E == IF ~exists(P.sym, ValueOf(t))
                  THEN Report(P, t, "Undeclared identifier '" \o ValueOf(t) \o "'",
                              getSuggestion("Undeclared identifier '"))
                  ELSE P
             A == advance(E)
         IN  IF curr(A).type = "LPAREN"
             THEN LET B == advance(A)
                      C == IF curr(B).type # "RPAREN" THEN CallArguments(B, 0)
                           ELSE Returning(B, 0)
                      provided == C.ret
                      D == expect(C, "RPAREN", ")")
                      name == ValueOf(t)
                  IN  Returning(
                        IF name \in DOMAIN functionSignatures
                           /\ Len(functionSignatures[name]) # provided
                        THEN Report(D, t,
                                    "Function call argument count mismatch for '" \o name \o "'",
                                    "SUGGESTION: Expected "
                                       \o ToString(Len(functionSignatures[name]))
                                       \o " argument(s), but got " \o ToString(provided))
                        ELSE D,
                        Ty("int"))
             ELSE IF curr(A).type = "OP_INC" \/ curr(A).type = "OP_DEC"
             THEN Returning(
                    advance(IF type = Ty("function") \/ ~isModifiableLvalue(A, t, type)
                            THEN Report(A, curr(A),
                                        "Invalid: cannot apply '" \o ValueOf(curr(A)) \o "' to '"
                                           \o ValueOf(t) \o "' (not a modifiable lvalue)",
                                        "SUGGESTION: ++/-- require a modifiable variable")
                            ELSE A),
                    type)
             ELSE Returning(A, type)
    ELSE IF t.type = "TOK_NUMBER"
    THEN Returning(advance(P),
                   IF \E i \in 1..Len(t.value) : t.value[i] = "." THEN Ty("float") ELSE Ty("int"))
    ELSE IF t.type = "TOK_STRING" THEN Returning(advance(P), Ty("string"))
    ELSE IF t.type = "TOK_CHAR" THEN Returning(advance(P), Ty("char"))
    ELSE IF t.type = "LPAREN"
    THEN LET R == Call("parseExpressionWithType", advance(P), <<>>) IN
         Returning(expect(R, "RPAREN", ")"), R.ret)
    ELSE IF t.type = "OP_BITAND"
    THEN LET A == advance(P) IN
         IF curr(A).type # "TOK_IDENTIFIER"
         THEN Returning(Report(A, t, "Address-of operator & requires a variable",
                               "SUGGESTION: Use & with a variable. Example: &x"),
                        Ty("UNKNOWN"))
         ELSE LET idTok == curr(A)
                  E == IF ~exists(A.sym, ValueOf(idTok))
                       THEN Report(A, idTok, "Undeclared variable '" \o ValueOf(idTok) \o "'",
                                   getSuggestion("Undeclared variable '"))
                       ELSE A
              IN  Returning(advance(E), Append(getType(A.sym, ValueOf(idTok)), "*"))
    ELSE IF t.type \in {"OP_PLUS", "OP_MINUS", "OP_NOT", "OP_BITNOT"}
    THEN LET A == advance(P) IN
         IF curr(A).type \in {"OP_PLUS", "OP_MINUS", "OP_STAR", "OP_SLASH", "OP_PERCENT",
                              "OP_BITAND", "OP_BITOR", "OP_BITXOR"}
         THEN Returning(
                advance(Report(A, t,
                               "Invalid operator sequence starting at '" \o ValueOf(t) \o "'",
                               "SUGGESTION: Unary operators must be followed by a valid expression")),
                Ty("UNKNOWN"))
         ELSE IF curr(A).type \in {"SEMICOLON", "RPAREN", "RBRACE", "COMMA"}
         THEN Returning(Report(A, t, "Incomplete unary expression after '" \o ValueOf(t) \o "'",
                               "SUGGESTION: Provide a valid operand"),
                        Ty("UNKNOWN"))
         ELSE IF curr(A).type = "TOK_IDENTIFIER"
                 /\ getType(A.sym, ValueOf(curr(A))) = Ty("function")
         THEN Returning(
                advance(Report(A, t,
                               "Unary operator '" \o ValueOf(t)
                                  \o "' cannot be applied to function '"
                                  \o ValueOf(curr(A)) \o "'",
                               "SUGGESTION: Functions must be called normally, e.g. "
                                  \o ValueOf(curr(A)) \o "();")),
                Ty("UNKNOWN"))
         ELSE Call("parsePrimaryWithType", A, <<>>)
    ELSE IF t.type \in {"OP_EQ", "OP_NE", "OP_AND", "OP_OR"}
    THEN Returning(
           advance(Report(P, t,
                          "Invalid: operator '" \o ValueOf(t) \o "' cannot start an expression",
                          "SUGGESTION: Add a left operand")),
           Ty("UNKNOWN"))
    ELSE IF t.type \in {"TOK_IDENTIFIER", "TOK_NUMBER", "TOK_STRING", "TOK_CHAR"}
    THEN Returning(
           advance(Report(P, t, "Unexpected token '" \o ValueOf(t) \o "' after expression",
                          "SUGGESTION: Missing operator between expressions")),
           Ty("UNKNOWN"))
    ELSE Returning(P, Ty("UNKNOWN"))

parseExprOrAssignment(P) ==
    IF curr(P).type = "TOK_IDENTIFIER" /\ peek(P).type = "OP_ASSIGN"
    THEN LET id == curr(P)
             varType == getType(P.sym, ValueOf(id))
             E == IF ~exists(P.sym, ValueOf(id))
                  THEN Report(P, id, "Undeclared variable '" \o ValueOf(id) \o "'",
                              getSuggestion("Undeclared variable '"))
                  ELSE P
             A == advance(E)
             assignTok == curr(A)
             R == Call("parseExpressionWithFullType", advance(A), <<>>)
             rhsType == R.ret
         IN  IF varType # Ty("UNKNOWN") /\ rhsType # Ty("UNKNOWN")
                /\ ~areTypesCompatible(varType, rhsType)
             THEN Warn(R, assignTok,
                       "Type error: assigning '" \o Render(rhsType) \o "' to '"
                          \o Render(varType) \o "'",
                       "SUGGESTION: Types must match. " \o Render(varType) \o " expected, "
                          \o Render(rhsType) \o " provided")
             ELSE R
    ELSE Call("parseExpression", P, <<>>)

(* The element loop of an array initializer: P.ret counts the elements.    *)
RECURSIVE ArrayElements(_, _)
ArrayElements(P, n) ==
    LET R == Call("parseExpression", P, <<>>) IN
    IF curr(R).type = "COMMA" THEN ArrayElements(advance(R), n + 1)
    ELSE Returning(R, n + 1)

(* The loop of parseVarDecl over the declarators after a comma.             *)
RECURSIVE MoreDeclarators(_, _)
MoreDeclarators(P, type) ==
    IF curr(P).type # "COMMA" THEN P
    ELSE LET S == Stars(advance(P), type) IN
         IF curr(S).type # "TOK_IDENTIFIER"
         THEN Report(S, curr(S), "Expected identifier",
                     "SUGGESTION: Provide a variable name after ',' (example: int *a, **b;)")
         ELSE LET t == curr(S)
                  A == advance(S)
                  isArray == curr(A).type = "LBRACKET"
                  B == IF isArray
                       THEN expect(IF curr(advance(A)).type = "TOK_NUMBER"
                                   THEN advance(advance(A)) ELSE advance(A),
                                   "RBRACKET", "]")
                       ELSE A
                  nextDeclaredType == IF isArray THEN Append(S.ret, "[]") ELSE S.ret
                  D == Declare(B, ValueOf(t), nextDeclaredType, t.line, t.column)
                  E == IF ~D.ret
                       THEN Report(D, t, "Redeclaration of '" \o ValueOf(t) \o "'",
                                   getSuggestion("Redeclaration of '"))
                       ELSE D
              IN  IF curr(E).type = "OP_ASSIGN"
                  THEN LET R == Call("parseExpressionWithFullType", advance(E), <<>>) IN
                       MoreDeclarators(
                         IF R.ret # Ty("UNKNOWN") /\ ~areTypesCompatible(nextDeclaredType, R.ret)
                         THEN Warn(R, t, "Type mismatch", "SUGGESTION: Types must match")
                         ELSE R,
                         type)
                  ELSE MoreDeclarators(E, type)

parseVarDecl(P0, type, ident, nameTok) ==
    LET S == Stars(P0, type)
        isArray == curr(S).type = "LBRACKET"
        hasSize == isArray /\ curr(advance(S)).type = "TOK_NUMBER"
        arraySize == IF hasSize THEN curr(advance(S)).value ELSE <<>>
        A == IF isArray
             THEN expect(IF hasSize THEN advance(advance(S)) ELSE advance(S), "RBRACKET", "]")
             ELSE S
        declaredType == IF isArray THEN Append(S.ret, "[]") ELSE S.ret
        D == Declare(A, ident, declaredType, nameTok.line, nameTok.column)
        E == IF ~D.ret
             THEN Report(D, nameTok, "Redeclaration of '" \o ident \o "'",
                         getSuggestion("Redeclaration of '"))
             ELSE D
        assignTok == curr(E)
        B == advance(E)
        I == IF curr(E).type # "OP_ASSIGN" THEN E
             ELSE IF isArray /\ curr(B).type = "LBRACE"
             THEN LET C == IF curr(advance(B)).type # "RBRACE"
                           THEN ArrayElements(advance(B), 0)
                           ELSE Returning(advance(B), 0)
                      F == expect(C, "RBRACE", "}")
                  IN  IF arraySize # <<>> /\ stoi(arraySize) < C.ret
                      THEN Report(F, assignTok,
                                  "Array size mismatch: declared " \o Render(arraySize)
                                     \o " but initialized with " \o ToString(C.ret) \o " elements",
                                  "SUGGESTION: Increase array size or reduce initializer elements")
                      ELSE F
             ELSE LET R == Call("parseExpressionWithFullType", B, <<>>) IN
                  IF R.ret # Ty("UNKNOWN") /\ ~areTypesCompatible(declaredType, R.ret)
                  THEN Warn(R, assignTok,
                            "Type mismatch: assigning '" \o Render(R.ret) \o "' to '"
                               \o Render(declaredType) \o "'",
                            "SUGGESTION: Types must be compatible")
                  ELSE R
    IN  expect(MoreDeclarators(I, type), "SEMICOLON", ";")

(* The loops with which parseFunction skips a nested function.              *)
RECURSIVE SkipToBody(_)
SkipToBody(P) ==
    IF curr(P).type \notin {"LBRACE", "SEMICOLON", "TOK_EOF"} THEN SkipToBody(advance(P)) ELSE P

RECURSIVE SkipBody(_, _)
SkipBody(P, braceCount) ==
    IF braceCount > 0 /\ curr(P).type # "TOK_EOF"
    THEN SkipBody(advance(P),
                  IF curr(P).type = "LBRACE" THEN braceCount + 1
                  ELSE IF curr(P).type = "RBRACE" THEN braceCount - 1
                  ELSE braceCount)
    ELSE P

(* The parameter loop of parseFunction.                                     *)
RECURSIVE Parameters(_)
Parameters(P) ==
    IF ~isTypeToken(P, curr(P))
    THEN Report(P, curr(P), "Expected type", getSuggestion("Expected type"))
    ELSE LET S == Stars(advance(P), Ty(ValueOf(curr(P)))) IN
         IF curr(S).type # "TOK_IDENTIFIER"
         THEN Report(S, curr(S), "Expected parameter name",
                     getSuggestion("Expected parameter name"))
         ELSE LET D == advance(Declare(S, ValueOf(curr(S)), S.ret, 0, 0)) IN
              IF curr(D).type = "COMMA" THEN Parameters(advance(D)) ELSE D

(* parseFunction at file scope, up to the ')' of the parameter list.         *)
FunctionHead(P, ident, nameTok) ==
    LET E == IF exists(P.sym, ident) /\ getType(P.sym, ident) = Ty("function")
             THEN Report(P, nameTok, "Redeclaration of function '" \o ident \o "'",
                         "SUGGESTION: Function '" \o ident \o "' is already declared")
             ELSE P
        A == PushScope(advance(Declare(E, ident, Ty("function"), 0, 0)))
        B == [A EXCEPT !.scopeDepth = @ + 1]
    IN  expect(IF curr(B).type # "RPAREN" THEN Parameters(B) ELSE B, "RPAREN", ")")

(* The rejection of a nested function that stops at the '{' of its body.    *)
RejectNested_BodyKept(P, ident, nameTok) ==
    LET E == Report(P, nameTok, "Invalid: nested function declaration '" \o ident \o "'",
                    "SUGGESTION: C does not support nested functions. Move to file scope")
        S == SkipToBody(E)
    IN  IF curr(S).type = "SEMICOLON" THEN advance(S)
        ELSE IF curr(S).type = "LBRACE" THEN advance(S)
        ELSE S

(* parseFunction at a nesting depth above 0.                                *)
RejectNested(P, ident, nameTok) ==
    LET E == Report(P, nameTok, "Invalid: nested function declaration '" \o ident \o "'",
                    "SUGGESTION: C does not support nested functions. Move to file scope")
        S == SkipToBody(E)
    IN  IF curr(S).type = "SEMICOLON" THEN advance(S)
        ELSE IF curr(S).type = "LBRACE" THEN SkipBody(advance(S), 1)
        ELSE S

parseFunction(P, ident, nameTok) ==
    IF P.scopeDepth > 0
    THEN RejectNested(P, ident, nameTok)
    ELSE LET C == FunctionHead(P, ident, nameTok) IN
         IF curr(C).type = "SEMICOLON"
         THEN PopScope([advance(C) EXCEPT !.scopeDepth = @ - 1])
         ELSE PopScope([Call("parseBlock", expect(C, "LBRACE", "{"), <<>>) EXCEPT !.scopeDepth = @ - 1])

parseIf(P) ==
    LET ifTok == curr(P)
        C == expect(Call("parseExpression", expect(advance(P), "LPAREN", "("), <<>>), "RPAREN", ")")
        S == IF curr(C).type = "SEMICOLON"
             THEN advance(Report(C, ifTok, "Missing statement after 'if' condition",
                                 "SUGGESTION: Add a statement or block after if"))
             ELSE IF curr(C).type = "RBRACE" \/ curr(C).type = "TOK_EOF"
             THEN Report(C, ifTok, "Missing statement after 'if' condition",
                         "SUGGESTION: Add a statement or block after if")
             ELSE Call("parseStatement", C, <<>>)
    IN  IF curr(S).type = "KW_ELSE" THEN Call("parseStatement", advance(S), <<>>) ELSE S

parseLoop(P) ==
    LET loopTok == curr(P)
        C == expect(Call("parseExpression", expect(advance(P), "LPAREN", "("), <<>>), "RPAREN", ")")
    IN  IF curr(C).type = "SEMICOLON"
        THEN advance(Report(C, loopTok, "Missing statement after loop condition",
                            "SUGGESTION: Add a statement or block"))
        ELSE Call("parseStatement", C, <<>>)

parseStatement(P) ==
    LET t == curr(P) IN
    IF t.type = "PREPROCESSOR" THEN advance(P)
    ELSE IF t.type = "LBRACE" THEN PopScope(Call("parseBlock", PushScope(advance(P)), <<>>))
    ELSE IF t.type = "KW_IF" THEN Call("parseIf", P, <<>>)
    ELSE IF t.type = "KW_WHILE" \/ t.type = "KW_FOR" THEN Call("parseLoop", P, <<>>)
    ELSE IF t.type = "KW_RETURN"
    THEN LET A == advance(P) IN
         expect(IF curr(A).type # "SEMICOLON" THEN Call("parseExpressionWithFullType", A, <<>>) ELSE A,
                "SEMICOLON", ";")
    ELSE IF t.type = "SEMICOLON" THEN advance(P)
    ELSE IF t.type = "KW_TYPEDEF" THEN Call("parseTypedef", P, <<>>)
    ELSE IF t.type = "KW_CONST"
    THEN LET A == advance(P) IN
         IF ~isTypeToken(A, curr(A))
         THEN Report(A, curr(A), "Expected type after const",
                     "SUGGESTION: const <type> <variable_name>;")
         ELSE LET S == Stars(advance(A), <<"const ", ValueOf(curr(A))>>) IN
              IF curr(S).type # "TOK_IDENTIFIER"
              THEN Report(S, curr(S), "Expected identifier after const type",
                          "SUGGESTION: Provide variable name")
              ELSE Call("parseVarDecl", advance(S), <<S.ret, ValueOf(curr(S)), curr(S)>>)
    ELSE IF t.type = "KW_STRUCT" THEN Call("parseStruct", P, <<>>)
    ELSE IF isTypeToken(P, t)
    THEN LET A == advance(P)
             B == IF curr(A).type = "KW_CONST" THEN advance(A) ELSE A
             S == Stars(B, IF curr(A).type = "KW_CONST" THEN <<ValueOf(t), " const">>
                           ELSE Ty(ValueOf(t)))
         IN  IF curr(S).type # "TOK_IDENTIFIER"
             THEN Report(S, curr(S),
                         "Expected identifier after type '" \o Render(S.ret) \o "'",
                         "SUGGESTION: Provide variable or function name")
             ELSE IF curr(advance(S)).type = "LPAREN"
             THEN Call("parseFunction", advance(S), <<ValueOf(curr(S)), curr(S)>>)
             ELSE Call("parseVarDecl", advance(S), <<S.ret, ValueOf(curr(S)), curr(S)>>)
    ELSE IF t.type \in {"OP_STAR", "OP_SLASH", "OP_PERCENT"}
    THEN advance(Report(P, t, "Invalid statement start: '" \o ValueOf(t) \o "'",
                        "SUGGESTION: Statements cannot begin with '" \o ValueOf(t) \o "'"))
    ELSE IF t.type \in {"OP_MINUS", "OP_PLUS", "OP_NOT", "OP_BITNOT"}
            /\ peek(P).type = "TOK_IDENTIFIER"
            /\ getType(P.sym, ValueOf(peek(P))) = Ty("function")
    THEN advance(Report(P, t,
                        "Invalid unary operator '" \o ValueOf(t) \o "' applied to function '"
                           \o ValueOf(peek(P)) \o "'",
                        "SUGGESTION: Unary operators only apply to numeric expressions"))
    ELSE expect(Call("parseExprOrAssignment", P, <<>>), "SEMICOLON", ";")

(* The loop of parseBlock: P.ret is iter when the loop is left.  An         *)
(* iteration that ends at the index it began at leaves the same tokens to   *)
(* the next one and is marked stalled.                                      *)
RECURSIVE BlockLoop(_, _)
BlockLoop(P, iter) ==
    IF curr(P).type = "RBRACE" \/ curr(P).type = "TOK_EOF" THEN Returning(P, iter)
    ELSE IF ~(iter < maxIter) THEN Returning(P, iter + 1)
    ELSE LET B == [P EXCEPT !.lastIndex = P.index]
             Q == forceAdvance(IF isTypeToken(B, curr(B)) THEN Call("parseDeclOrFunc", B, <<>>)
                               ELSE Call("parseStatement", B, <<>>))
         IN  IF Q.index = P.index THEN Returning([Q EXCEPT !.stalled = TRUE], iter + 1)
             ELSE BlockLoop(Q, iter + 1)

parseBlock(P) ==
    LET L == BlockLoop(P, 0) IN
    expect(IF L.ret >= maxIter
           THEN Report(L, curr(L), "Parser stuck, aborting block", "")
           ELSE L,
           "RBRACE", "}")

(* The body of the loop of parseProgram: the rule dispatched on the        *)
(* current token, and forceAdvance, which ends every branch of it.         *)
ProgramDispatch(P) ==
    LET B == [P EXCEPT !.lastIndex = P.index]
        A == IF curr(B).type = "PREPROCESSOR" THEN advance(B) ELSE B
    IN  IF curr(A).type = "KW_TYPEDEF" THEN Call("parseTypedef", A, <<>>)
        ELSE IF curr(A).type = "KW_STRUCT" THEN Call("parseStruct", A, <<>>)
        ELSE IF isTypeToken(A, curr(A)) THEN Call("parseDeclOrFunc", A, <<>>)
        ELSE IF curr(A).type = "TOK_ERROR" THEN advance(A)
        ELSE advance(Report(A, curr(A), "Unexpected at file scope",
                            getSuggestion("Unexpected at file scope")))

ProgramItem(P) == forceAdvance(ProgramDispatch(P))

Call(f, P, a) ==
    CASE f = "parseVarDecl" -> parseVarDecl(P, a[1], a[2], a[3])
      [] f = "parseFunction" -> parseFunction(P, a[1], a[2])
      [] f = "parseBlock" -> parseBlock(P)
      [] f = "parseStruct" -> parseStruct(P)
      [] f = "parseStatement" -> parseStatement(P)
      [] f = "parsePrimaryWithType" -> parsePrimaryWithType(P)
      [] f = "parseExpressionWithType" -> parseExpressionWithType(P)
      [] f = "parseExpression" -> parseExpression(P)
      [] f = "parseExpressionWithFullType" -> parseExpressionWithFullType(P)
      [] f = "parseTypedef" -> parseTypedef(P)
      [] f = "parseDeclOrFunc" -> parseDeclOrFunc(P)
      [] f = "parseExprOrAssignment" -> parseExprOrAssignment(P)
      [] f = "parseIf" -> parseIf(P)
      [] f = "parseLoop" -> parseLoop(P)
      [] f = "ProgramItem" -> ProgramItem(P)
      [] f = "ProgramDispatch" -> ProgramDispatch(P)

-----------------------------------------------------------------------------
(* Bounds of the model and the source texts it analyses: every text of at  *)
(* most MaxLen characters of CharAlphabet, and the programs                *)
(* "int main(){" body "}" and "int main(){" body, where body is at most    *)
(* MaxStmts of the fragments below, each ended by a newline; the shorter   *)
(* of them also after the file-scope declaration "char x;"; and the        *)
(* function definitions of FunctionPrograms.                                *)

MaxLen == 3

MaxStmts == 3

CharAlphabet == {"x", "1", " ", "\n", "@", "\"", "'", "\\", "/", "*", ".", "=", NUL}

RECURSIVE Strings(_, _)
Strings(A, n) ==
    IF n = 0 THEN {<<>>}
    ELSE LET S == Strings(A, n - 1) IN
         S \cup {Append(s, a) : s \in {t \in S : Len(t) = n - 1}, a \in A}

DeclIntX == <<"i", "n", "t", " ", "x", ";">>

DeclCharX == <<"c", "h", "a", "r", " ", "x", ";">>

BlockDeclIntX == <<"{", "i", "n", "t", " ", "x", ";", "}">>

AssignX == <<"x", "=", "1", ";">>

AssignY == <<"y", "=", "1", ";">>

AssignXFromY == <<"x", "=", "y", ";">>

DeclIntXFloat == <<"i", "n", "t", " ", "x", "=", "1", ".", "5", ";">>

DeclIntXInt == <<"i", "n", "t", " ", "x", "=", "1", ";">>

InvalidChar == <<"@">>

StrayParen == <<")">>

CloseBrace == <<"}">>

CallF == <<"f", "(", "x", ",", "1", ")", ";">>

StructS == <<"s", "t", "r", "u", "c", "t", " ", "S", "{", "i", "n", "t", " ", "a", ";", "}", ";">>

FunctionF ==
    <<"i", "n", "t", " ", "f", "(", "i", "n", "t", " ", "a", ",",
      "i", "n", "t", " ", "b", ")", "{", "}">>

DeclIntY == <<"i", "n", "t", " ", "y", ";">>

ForEver == <<"f", "o", "r", "(", ";", ";", ")", "{", "}">>

OpenBrace == <<"{">>

Fragments ==
    {DeclIntX, DeclCharX, DeclIntY, BlockDeclIntX, AssignX, AssignY, AssignXFromY,
     DeclIntXFloat, DeclIntXInt, InvalidChar, StrayParen, OpenBrace, CloseBrace,
     CallF, StructS, FunctionF, ForEver}

MainOpen == <<"i", "n", "t", " ", "m", "a", "i", "n", "(", ")", "{">>

(* The sequences of at most n fragments, and the text of one: each         *)
(* fragment on a line of its own.                                           *)
RECURSIVE FragmentSeqs(_)
FragmentSeqs(n) ==
    IF n = 0 THEN {<<>>}
    ELSE LET S == FragmentSeqs(n - 1) IN
         S \cup {Append(fs, f) : fs \in {t \in S : Len(t) = n - 1}, f \in Fragments}

RECURSIVE Body(_)
Body(fs) == IF fs = <<>> THEN <<>> ELSE Head(fs) \o <<"\n">> \o Body(Tail(fs))

Program(fs, closed) == MainOpen \o Body(fs) \o (IF closed THEN <<"}">> ELSE <<>>)

(* The same after a file-scope declaration of x.                            *)
GlobalProgram(fs, closed) == DeclCharX \o <<"\n">> \o Program(fs, closed)

Programs ==
    {Program(fs, c) : fs \in FragmentSeqs(MaxStmts), c \in BOOLEAN}
    \cup {GlobalProgram(fs, c) : fs \in FragmentSeqs(MaxStmts - 1), c \in BOOLEAN}

(* Function definitions at file scope, well formed and not: a head, at     *)
(* most one fragment and, if closed, "}".                                   *)
HeadNoParameters == <<"i", "n", "t", " ", "f", "(", ")", "{">>

HeadUntypedParameter == <<"i", "n", "t", " ", "f", "(", "x", ")", "{">>

HeadUnnamedParameter == <<"i", "n", "t", " ", "f", "(", "i", "n", "t", ")", "{">>

HeadOpenParameters == <<"i", "n", "t", " ", "f", "(", "i", "n", "t", " ", "a">>

HeadPrototype == <<"i", "n", "t", " ", "f", "(", "i", "n", "t", " ", "a", ")", ";">>

HeadVoid == <<"v", "o", "i", "d", " ", "f", "(", "i", "n", "t", " ", "a", ")", "{">>

FunctionHeads ==
    {HeadNoParameters,
     HeadUntypedParameter,
     HeadUnnamedParameter,
     HeadOpenParameters,
     HeadPrototype,
     HeadVoid}

FunctionPrograms ==
    {h \o Body(fs) \o (IF c THEN <<"}">> ELSE <<>>) :
        h \in FunctionHeads, fs \in FragmentSeqs(1), c \in BOOLEAN}

(* The same definitions as the first statement of main, main closed or     *)
(* not.                                                                     *)
NestedPrograms ==
    {MainOpen \o p \o c : p \in FunctionPrograms, c \in {<<>>, <<"\n", "}">>}}

(* Character literals of at most MaxLen characters between their quotes,   *)
(* escapes among them.                                                      *)
CharLiterals == {<<"'">> \o b \o <<"'">> : b \in Strings({"x", "1", "\\", "'"}, MaxLen)}

(* Numeric literals and what resembles them: a digit and at most MaxLen     *)
(* characters more.                                                         *)
NumberLiterals == {<<"1">> \o b : b \in Strings({"1", ".", "e", "E", "-", "x"}, MaxLen)}

(* Calls of library functions, and of one that is not, with at most        *)
(* MaxLen arguments, as the only statement of main.                         *)
LibraryNames ==
    {<<"p", "r", "i", "n", "t", "f">>,
     <<"s", "c", "a", "n", "f">>,
     <<"m", "a", "l", "l", "o", "c">>,
     <<"f", "r", "e", "e">>,
     <<"s", "t", "r", "l", "e", "n">>,
     <<"p", "u", "t", "s">>}

RECURSIVE Arguments(_)
Arguments(n) ==
    IF n = 0 THEN <<>> ELSE IF n = 1 THEN <<"1">> ELSE Arguments(n - 1) \o <<",", "1">>

LibraryCall(name, n) == MainOpen \o name \o <<"(">> \o Arguments(n) \o <<")", ";", "}">>

LibraryPrograms == {LibraryCall(name, n) : name \in LibraryNames, n \in 0..MaxLen}

Sources ==
    Strings(CharAlphabet, MaxLen) \cup Programs \cup FunctionPrograms \cup NestedPrograms
        \cup CharLiterals \cup NumberLiterals \cup LibraryPrograms

-----------------------------------------------------------------------------
(* CErrorDetectorEngine::analyzeCode.  pc is "lex" while tokenizeAll runs, *)
(* "parse" while parseProgram runs, "done" when the result is returned.    *)
(* parser.iter is the local iter of parseProgram.                          *)

Init ==
    /\ source \in Sources
    /\ pc = "lex"
    /\ lexer = NewLexer(source)
    /\ tokens = <<>>
    /\ parser = <<>>
    /\ result = <<>>

(* One iteration of the do-while of tokenizeAll; after the last one the    *)
(* Parser is constructed over the tokens.                                  *)
TokenizeStep ==
    /\ pc = "lex"
    /\ LET R == getNextToken(lexer) IN
       /\ lexer' = R.L
       /\ tokens' = Append(tokens, R.tok)
       /\ pc' = IF R.tok.type = "TOK_EOF" THEN "parse" ELSE "lex"
       /\ parser' = IF R.tok.type = "TOK_EOF"
                    THEN [NewParser(Append(tokens, R.tok)) EXCEPT !.ret = 0]
                    ELSE parser
    /\ UNCHANGED <<source, result>>

(* One iteration of the loop of parseProgram: Q is the parser after the    *)
(* body, begun at P.  iter is kept in parser.ret between the iterations.   *)
NextIteration(P, Q) ==
    [Q EXCEPT !.ret = P.ret + 1, !.stalled = Q.stalled \/ Q.index = P.index]

ParseProgramStep ==
    /\ pc = "parse"
    /\ ~parser.stalled
    /\ curr(parser).type # "TOK_EOF"
    /\ parser.ret < maxIter
    /\ parser' = NextIteration(parser, Call("ProgramItem", parser, <<>>))
    /\ UNCHANGED <<source, pc, lexer, tokens, result>>

(* The loop of parseProgram is left, and analyzeCode returns.               *)
ParseProgramExit ==
    /\ pc = "parse"
    /\ ~parser.stalled
    /\ curr(parser).type = "TOK_EOF" \/ ~(parser.ret < maxIter)
    /\ LET iter == IF curr(parser).type = "TOK_EOF" THEN parser.ret ELSE parser.ret + 1
           Q == IF iter >= maxIter
                THEN [parser EXCEPT !.errors = Append(@,
                        SynDiag("", 0, 0, "Parser stuck - aborting", ""))]
                ELSE parser
       IN  /\ parser' = [Q EXCEPT !.ret = iter]
           /\ result' = [lexicalErrors |-> lexer.errors,
                         syntaxErrors |-> Q.errors,
                         totalErrors |-> Len(lexer.errors) + Len(Q.errors)]
    /\ pc' = "done"
    /\ UNCHANGED <<source, lexer, tokens>>

Next == TokenizeStep \/ ParseProgramStep \/ ParseProgramExit

Spec == Init /\ [][Next]_vars

-----------------------------------------------------------------------------
(* Properties of analyzeCode.                                              *)

Texts(errs) == [i \in DOMAIN errs |-> errs[i].text]

TokenTypes == [i \in DOMAIN tokens |-> tokens[i].type]

(* C1: tokenizeAll terminates on every input and its token sequence ends   *)
(* with exactly one TOK_EOF token, which is the last one.  While the loop  *)
(* runs no TOK_EOF has been produced, every token that is not TOK_EOF      *)
(* consumes at least one character, so at most Len(source) tokens precede  *)
(* the TOK_EOF; once it has ended the last token, and only it, is TOK_EOF. *)
C1_TokenStreamEndsWithEOF ==
    /\ lexer.pos <= Len(source)
    /\ pc = "lex" =>
         /\ \A i \in DOMAIN tokens : tokens[i].type # "TOK_EOF"
         /\ Len(tokens) <= lexer.pos
         /\ LET R == getNextToken(lexer) IN
            R.tok.type # "TOK_EOF" => R.L.pos > lexer.pos
    /\ pc # "lex" =>
         /\ tokens # <<>>
         /\ tokens[Len(tokens)].type = "TOK_EOF"
         /\ \A i \in 1..(Len(tokens) - 1) : tokens[i].type # "TOK_EOF"

(* tokenizeAll has ended on a text with an unknown character and other     *)
(* tokens.                                                                  *)
C1_Witness ==
    /\ pc # "lex"
    /\ Len(tokens) >= 4
    /\ \E i \in DOMAIN tokens : tokens[i].type = "TOK_ERROR"
    /\ \E i \in DOMAIN tokens : tokens[i].type = "TOK_IDENTIFIER"

TokenStarts ==
    Space \cup Digit \cup Alpha \cup {"_", "#", "\"", "'"}
          \cup DOMAIN SingleCharToken \cup DOMAIN OperatorStart

(* C3: when the character the scan stands at, after white space and        *)
(* comments, begins no token class, getNextToken returns exactly one       *)
(* TOK_ERROR token whose value is that character, appends exactly one      *)
(* diagnostic "Invalid character: '<c>'" at its position and advances past *)
(* that one character; the scan goes on after it, so tokenizeAll ends      *)
(* only when the whole text has been read.                                  *)
C3_InvalidCharacterIsOneErrorToken ==
    /\ pc = "lex" =>
         LET L == SkipComments(skipWhitespace(lexer)) IN
         (L.pos < Len(L.input) /\ L.input[L.pos + 1] \notin TokenStarts) =>
            LET c == L.input[L.pos + 1]
                R == getNextToken(lexer)
            IN  /\ R.tok = Token("TOK_ERROR", <<c>>, L.line, L.column)
                /\ R.L.pos = L.pos + 1
                /\ R.L.errors = Append(L.errors,
                       LexDiag(L.line, L.column, "Invalid character: '" \o c \o "'"))
    /\ pc # "lex" => lexer.pos = Len(source)

(* The same for the texts without a character of code 0.                    *)
C3_ExceptNUL == (\A i \in DOMAIN source : source[i] # NUL) => C3_InvalidCharacterIsOneErrorToken

(* The bodies of well-formed programs among the fragment sequences: the    *)
(* fragments are statements of C with matched brackets; x and y are        *)
(* declared once, of type int, in the function's scope before a statement  *)
(* uses them, so every assignment is of an int to an int.                   *)
DeclaresX(f) == f \in {DeclIntX, DeclIntXInt}

UsesX(f) == f \in {AssignX, AssignXFromY}

UsesY(f) == f \in {AssignY, AssignXFromY}

WellFormedBody(fs, statements) ==
    /\ \A i \in DOMAIN fs : fs[i] \in statements
    /\ \A i, j \in DOMAIN fs : (i # j /\ DeclaresX(fs[i])) => ~DeclaresX(fs[j])
    /\ \A i, j \in DOMAIN fs : (i # j /\ fs[i] = DeclIntY) => fs[j] # DeclIntY
    /\ \A i \in DOMAIN fs : UsesX(fs[i]) => \E j \in 1..(i - 1) : DeclaresX(fs[j])
    /\ \A i \in DOMAIN fs : UsesY(fs[i]) => \E j \in 1..(i - 1) : fs[j] = DeclIntY

WellFormedPrograms(statements) ==
    {<<>>} \cup {Program(fs, TRUE) :
                   fs \in {t \in FragmentSeqs(MaxStmts) : WellFormedBody(t, statements)}}

Located(errs) == [i \in DOMAIN errs |-> <<errs[i].line, errs[i].column, errs[i].text>>]

(* The declarations of x, and the column of the name in one.                *)
XDecls == {DeclIntX, DeclCharX, DeclIntXInt}

NameColumn(f) == IF f = DeclCharX THEN 6 ELSE 5

RedeclarationBodies ==
    {fs \in FragmentSeqs(MaxStmts) : fs # <<>> /\ \A i \in DOMAIN fs : fs[i] \in XDecls}

ShadowingPrograms ==
    {Program(<<o, BlockDeclIntX>> \o rest, TRUE) : o \in XDecls, rest \in {<<>>, <<AssignX>>}}
    \cup {Program(<<OpenBrace, o, BlockDeclIntX>>, TRUE) : o \in XDecls}
    \cup {GlobalProgram(<<BlockDeclIntX>> \o rest, TRUE) : rest \in {<<>>, <<AssignX>>}}
    \cup {GlobalProgram(<<o>> \o rest, TRUE) : o \in XDecls, rest \in {<<>>, <<BlockDeclIntX>>}}

(* C6: a declaration of x in an inner block, where an enclosing scope      *)
(* (the function's, an outer block's, the file's) declares x, is not       *)
(* reported as a redeclaration; and after the inner block the name has     *)
(* the outer declaration's type again: with x a char outside and an int    *)
(* in the block, "x=1;" after the block is the assignment of an int to a   *)
(* char, and with x an int outside it is reported as nothing.               *)
C6_InnerDeclarationShadows ==
    pc = "done" =>
      /\ source \in ShadowingPrograms =>
           \A i \in DOMAIN result.syntaxErrors :
              result.syntaxErrors[i].text # "Redeclaration of 'x'"
      /\ source \in {Program(<<DeclCharX, BlockDeclIntX, AssignX>>, TRUE),
                     GlobalProgram(<<BlockDeclIntX, AssignX>>, TRUE)} =>
           Texts(result.syntaxErrors) = <<"Type error: assigning 'int' to 'char'">>
      /\ source \in {Program(<<DeclIntX, BlockDeclIntX, AssignX>>, TRUE),
                     Program(<<DeclIntXInt, BlockDeclIntX, AssignX>>, TRUE)} =>
           result.syntaxErrors = <<>>

(* x has been declared a char in the function, an int in a block, and      *)
(* assigned after the block, where it is the char.                          *)
C6_Witness ==
    /\ pc = "done"
    /\ source = Program(<<DeclCharX, BlockDeclIntX, AssignX>>, TRUE)
    /\ Texts(result.syntaxErrors) = <<"Type error: assigning 'int' to 'char'">>

(* The identifiers of the programs analysed, and the two messages for one  *)
(* that is not declared.                                                    *)
Names == {"x", "y", "f", "a", "b", "S", "main"}

UndeclaredTexts(n) ==
    {"Undeclared variable '" \o n \o "'", "Undeclared identifier '" \o n \o "'"}

(* C7: the use of an identifier that no enclosing scope declares and that  *)
(* is no standard function, as the target of an assignment ("y=1;") or in  *)
(* an expression ("x=y;" with x declared), is reported once by a           *)
(* diagnostic that names it, "Undeclared variable 'y'" or "Undeclared      *)
(* identifier 'y'", with a suggestion that is not empty; its type is       *)
(* UNKNOWN, so no type diagnostic follows, and the next statement is       *)
(* analysed.                                                                *)
C7_UndeclaredUseReportedWithSuggestion ==
    pc = "done" =>
      /\ \A use \in {<<AssignY>>, <<DeclIntX, AssignXFromY>>} :
         \A rest \in {<<>>, <<DeclIntY>>} :
           source = Program(use \o rest, TRUE) =>
              /\ Len(result.syntaxErrors) = 1
              /\ result.syntaxErrors[1].text \in UndeclaredTexts("y")
      /\ \A i \in DOMAIN result.syntaxErrors :
           (\E n \in Names : result.syntaxErrors[i].text \in UndeclaredTexts(n)) =>
              result.syntaxErrors[i].suggestion # ""

(* C7 without the suggestion of the diagnostic.                             *)
C7_UndeclaredUseReported ==
    pc = "done" =>
      \A use \in {<<AssignY>>, <<DeclIntX, AssignXFromY>>} :
      \A rest \in {<<>>, <<DeclIntY>>} :
        source = Program(use \o rest, TRUE) =>
           /\ Len(result.syntaxErrors) = 1
           /\ result.syntaxErrors[1].text \in UndeclaredTexts("y")

(* C8: an initialiser or an assignment whose type is not UNKNOWN and not   *)
(* compatible with the variable's declared type is reported by one         *)
(* diagnostic "Type mismatch: assigning ..." (initialiser) or "Type        *)
(* error: assigning ..." (assignment), after which the next statement is   *)
(* analysed as usual; a compatible one, and one whose type is UNKNOWN, is  *)
(* reported by no such diagnostic.                                          *)
C8_IncompatibleAssignmentReported ==
    pc = "done" =>
      \A rest \in {<<>>, <<AssignY>>} :
        LET after == IF rest = <<>> THEN <<>> ELSE <<"Undeclared variable 'y'">> IN
        /\ source = Program(<<DeclIntXFloat>> \o rest, TRUE) =>
             Texts(result.syntaxErrors) =
                <<"Type mismatch: assigning 'float' to 'int'">> \o after
        /\ source = Program(<<DeclCharX, AssignX>> \o rest, TRUE) =>
             Texts(result.syntaxErrors) =
                <<"Type error: assigning 'int' to 'char'">> \o after
        /\ source \in {Program(<<DeclIntXInt>> \o rest, TRUE),
                       Program(<<DeclIntX, AssignX>> \o rest, TRUE)} =>
             Texts(result.syntaxErrors) = after
        /\ source = Program(<<DeclIntX, DeclIntY, AssignXFromY>>, TRUE) =>
             result.syntaxErrors = <<>>
        /\ source = Program(<<DeclCharX, AssignXFromY>> \o rest, TRUE) =>
             Texts(result.syntaxErrors) = <<"Undeclared identifier 'y'">> \o after

(* A float has initialised an int and the statement after it has been      *)
(* analysed.                                                                *)
C8_Witness ==
    /\ pc = "done"
    /\ source = Program(<<DeclIntXFloat, AssignY>>, TRUE)
    /\ Texts(result.syntaxErrors) =
          <<"Type mismatch: assigning 'float' to 'int'", "Undeclared variable 'y'">>

-----------------------------------------------------------------------------
(* The stand-alone analyzer of MainWindow.cpp (Tokenizer, SymbolTable,     *)
(* TypeSystem, Parser and main), the revision of the engine that counts    *)
(* the brackets and checks the return statements of a function.  Its       *)
(* definitions have the names of the code after "mw_".  A token is         *)
(* [type, value, line, column] with a string value; a type is a string.    *)
(* The parser is the record [tokens, index, table, scopeStack, errors,     *)
(* parenBalance, braceBalance, ret]: table and scopeStack are the members  *)
(* of its SymbolTable, ret the value the last called function returned.    *)
(* The tokens analysed hold no '#', struct, typedef, for, do or switch, so *)
(* the functions that only these reach are not part of the model.          *)

mw_Token(t, v, l, c) == [type |-> t, value |-> v, line |-> l, column |-> c]

mw_eofToken == mw_Token("END_OF_FILE", "", 0, 0)

(* StandardLibrary: the return types of the functions it knows.             *)
mw_stdioFunctions ==
    [n \in {"printf", "scanf", "fprintf", "fscanf", "sprintf", "sscanf", "puts", "fputs"}
        |-> "int"] @@ [n \in {"gets", "fgets"} |-> "char*"]

mw_stdlibFunctions ==
    [n \in {"malloc", "calloc", "realloc"} |-> "void*"]
    @@ [n \in {"free", "exit", "srand"} |-> "void"]
    @@ [n \in {"atoi", "rand"} |-> "int"] @@ [n \in {"atof"} |-> "double"]

mw_stringFunctions ==
    [n \in {"strlen"} |-> "size_t"] @@ [n \in {"strcmp", "strncmp"} |-> "int"]
    @@ [n \in {"strcpy", "strncpy", "strcat", "strchr", "strstr"} |-> "char*"]

mw_mathFunctions == [n \in {"sin", "cos", "tan", "sqrt", "pow", "fabs"} |-> "double"]

mw_isKnownFunction(n) ==
    n \in DOMAIN mw_stdioFunctions \cup DOMAIN mw_stdlibFunctions
          \cup DOMAIN mw_stringFunctions \cup DOMAIN mw_mathFunctions

mw_getReturnType(n) ==
    IF n \in DOMAIN mw_stdioFunctions THEN mw_stdioFunctions[n]
    ELSE IF n \in DOMAIN mw_stdlibFunctions THEN mw_stdlibFunctions[n]
    ELSE IF n \in DOMAIN mw_stringFunctions THEN mw_stringFunctions[n]
    ELSE IF n \in DOMAIN mw_mathFunctions THEN mw_mathFunctions[n]
    ELSE "UNKNOWN"

(* SuggestionEngine::getSuggestion: the message is searched for the        *)
(* triggers in this order; head is the fixed part of the message, in       *)
(* which alone a trigger can occur.                                         *)
mw_getSuggestion(head) ==
    IF head = "Expected ';'"
    THEN "Ensure each statement ends with a semicolon. Example: int x = 5;"
    ELSE IF head = "Unbalanced '(' and ')' in code."
    THEN "Check that each '(' has a matching ')'."
    ELSE IF head = "Unbalanced '{' and '}' in code."
    THEN "Check that each '{' has a matching '}'."
    ELSE IF head = "Undeclared variable '"
    THEN "Declare the variable before use. Example: int x;"
    ELSE IF head \in {"Redeclaration of '", "Redeclaration of function '",
                      "Redeclaration of parameter '"}
    THEN "Remove the duplicate declaration or rename one of the variables."
    ELSE IF head \in {"Expected identifier after type '", "Expected identifier"}
    THEN "Provide a valid variable or function name."
    ELSE "Review the syntax near the reported line and column."

(* TypeSystem.  mw_hasStar(t) is t.find("*") != npos, on the types the     *)
(* model forms.                                                             *)
mw_numericTypes == {"int", "float", "double", "char"}

mw_hasStar(t) == t \in {"char*", "void*"}

mw_areTypesCompatible(lhs, rhs) ==
    \/ lhs = rhs
    \/ lhs \in mw_numericTypes /\ rhs \in mw_numericTypes
    \/ mw_hasStar(lhs) /\ mw_hasStar(rhs)
    \/ lhs = "void*" /\ mw_hasStar(rhs)

mw_getOperationResultType(lhs, rhs, op) ==
    IF op \in {"+", "-", "*", "/"}
    THEN IF lhs \in mw_numericTypes /\ rhs \in mw_numericTypes
         THEN IF lhs = "double" \/ rhs = "double" THEN "double"
              ELSE IF lhs = "float" \/ rhs = "float" THEN "float"
              ELSE "int"
         ELSE IF lhs = "string" /\ op = "+" THEN "string"
         ELSE "INVALID"
    ELSE IF op \in {"==", "!=", "<", ">", "<=", ">="}
    THEN IF mw_areTypesCompatible(lhs, rhs) THEN "int" ELSE "INVALID"
    ELSE IF op \in {"&&", "||"} THEN "int"
    ELSE IF op \in {"&", "|", "^", "<<", ">>"}
    THEN IF lhs \in mw_numericTypes /\ rhs \in mw_numericTypes THEN "int" ELSE "INVALID"
    ELSE "UNKNOWN"

mw_isNumericType(t) == t \in mw_numericTypes

(* SymbolTable, on the parser record.                                       *)
mw_NewTable ==
    [n \in {"printf", "scanf", "malloc", "free", "strlen", "sqrt"} |->
        VarInfo("function", 0, 0)]

mw_enterScope(P) == [P EXCEPT !.scopeStack = Append(@, <<>>)]

mw_exitScope(P) ==
    IF P.scopeStack # <<>>
    THEN [P EXCEPT !.scopeStack = SubSeq(@, 1, Len(@) - 1)]
    ELSE P

mw_Bind(m, n, t, l, c) ==
    [k \in DOMAIN m \cup {n} |-> IF k = n THEN VarInfo(t, l, c) ELSE m[k]]

(* declare: P.ret is the value returned.                                    *)
mw_declare(P, n, t, l, c) ==
    IF P.scopeStack = <<>>
    THEN IF n \in DOMAIN P.table THEN [P EXCEPT !.ret = FALSE]
         ELSE [P EXCEPT !.table = mw_Bind(@, n, t, l, c), !.ret = TRUE]
    ELSE IF n \in DOMAIN P.scopeStack[Len(P.scopeStack)] THEN [P EXCEPT !.ret = FALSE]
         ELSE [P EXCEPT !.scopeStack[Len(P.scopeStack)] = mw_Bind(@, n, t, l, c),
                        !.ret = TRUE]

mw_exists(P, n) ==
    \/ \E i \in DOMAIN P.scopeStack : n \in DOMAIN P.scopeStack[i]
    \/ n \in DOMAIN P.table
    \/ mw_isKnownFunction(n)

mw_getType(P, n) ==
    LET found == {i \in DOMAIN P.scopeStack : n \in DOMAIN P.scopeStack[i]} IN
    IF found # {}
    THEN P.scopeStack[CHOOSE i \in found : \A j \in found : j <= i][n].type
    ELSE IF n \in DOMAIN P.table THEN P.table[n].type
    ELSE IF mw_isKnownFunction(n) THEN mw_getReturnType(n)
    ELSE "UNKNOWN"

(* Parser.                                                                  *)
mw_NewParser(toks) ==
    [tokens |-> toks, index |-> 0, table |-> mw_NewTable, scopeStack |-> <<>>,
     errors |-> <<>>, parenBalance |-> 0, braceBalance |-> 0, ret |-> ""]

mw_curr(P) == IF P.index >= Len(P.tokens) THEN mw_eofToken ELSE P.tokens[P.index + 1]

mw_peek(P) == IF P.index + 1 >= Len(P.tokens) THEN mw_eofToken ELSE P.tokens[P.index + 2]

mw_advance(P) == IF P.index < Len(P.tokens) THEN [P EXCEPT !.index = @ + 1] ELSE P

(* errors.push_back of a "Line L:C - " message at token t, and of a        *)
(* message without a position.                                              *)
mw_Error(P, t, text, sug) ==
    [P EXCEPT !.errors = Append(@, SynDiag("Line", t.line, t.column, text, sug))]

mw_Summary(P, text, sug) == [P EXCEPT !.errors = Append(@, SynDiag("", 0, 0, text, sug))]

mw_expect(P, t, msg) ==
    IF mw_curr(P).type # t
    THEN mw_Error(P, mw_curr(P),
                  "Expected '" \o msg \o "' but got '" \o mw_curr(P).value \o "'",
                  mw_getSuggestion("Expected '" \o msg \o "'"))
    ELSE mw_advance(P)

mw_isTypeToken(t) ==
    t.type \in {"TOK_INT", "TOK_FLOAT", "TOK_DOUBLE", "TOK_CHAR", "TOK_LONG",
                "TOK_SHORT", "TOK_VOID", "TOK_SIGNED", "TOK_UNSIGNED"}

mw_tokenTypeToString(t) ==
    CASE t.type = "TOK_INT" -> "int"
      [] t.type = "TOK_FLOAT" -> "float"
      [] t.type = "TOK_DOUBLE" -> "double"
      [] t.type = "TOK_CHAR" -> "char"
      [] t.type = "TOK_VOID" -> "void"
      [] t.type = "TOK_LONG" -> "long"
      [] t.type = "TOK_SHORT" -> "short"
      [] t.type = "TOK_SIGNED" -> "signed"
      [] t.type = "TOK_UNSIGNED" -> "unsigned"
      [] OTHER -> "UNKNOWN"

mw_isOp(t) ==
    t.type \in {"OP_PLUS", "OP_MINUS", "OP_MUL", "OP_DIV", "OP_MOD", "OP_EQ", "OP_NEQ",
                "OP_LT", "OP_GT", "OP_LTE", "OP_GTE", "OP_AND", "OP_OR",
                "OP_BITWISE_AND", "OP_BITWISE_OR", "OP_BITWISE_XOR",
                "OP_SHIFT_LEFT", "OP_SHIFT_RIGHT"}

(* A call of one parse function from another, as Call above.                *)
RECURSIVE mw_Call(_, _, _)

(* The loops "while (curr().type == TokenType::OP_STAR)": P.ret is the     *)
(* type so far.  TokenType has no member OP_STAR and no token has it.       *)
RECURSIVE mw_Stars(_)
mw_Stars(P) ==
    IF mw_curr(P).type = "OP_STAR"
    THEN mw_Stars([mw_advance(P) EXCEPT !.ret = P.ret \o "*"])
    ELSE P

(* The argument loop of a call and the element loop of an initialiser,     *)
(* up to the token close.                                                   *)
RECURSIVE mw_ExpressionList(_, _)
mw_ExpressionList(P, close) ==
    IF mw_curr(P).type = close \/ mw_curr(P).type = "END_OF_FILE" THEN P
    ELSE LET R == mw_Call("parseExpression", P, <<>>) IN
         IF mw_curr(R).type = "COMMA" THEN mw_ExpressionList(mw_advance(R), close) ELSE R

mw_parsePrimaryWithType(P) ==
    LET t == mw_curr(P) IN
    IF t.type = "TOK_IDENTIFIER"
    THEN LET E == IF ~mw_exists(P, t.value)
                  THEN mw_Error(P, t, "Undeclared identifier '" \o t.value \o "'",
                                mw_getSuggestion("Undeclared identifier '"))
                  ELSE P
             idType == mw_getType(E, t.value)
             A == mw_advance(E)
         IN  IF mw_curr(A).type = "LPAREN"
             THEN [mw_expect(mw_ExpressionList(mw_advance(A), "RPAREN"), "RPAREN", ")")
                      EXCEPT !.ret = idType]
             ELSE [A EXCEPT !.ret = idType]
    ELSE IF t.type = "TOK_NUMBER"
    THEN [mw_advance(P) EXCEPT !.ret = IF t.value \in {"1.5"} THEN "double" ELSE "int"]
    ELSE IF t.type = "TOK_CHAR_LITERAL" THEN [mw_advance(P) EXCEPT !.ret = "char"]
    ELSE IF t.type = "TOK_STRING_LITERAL" THEN [mw_advance(P) EXCEPT !.ret = "char*"]
    ELSE IF t.type = "LPAREN"
    THEN LET R == mw_Call("parseExpression",
                          mw_advance([P EXCEPT !.parenBalance = @ + 1]), <<>>)
             X == mw_expect(R, "RPAREN", ")")
         IN  [X EXCEPT !.parenBalance = @ - 1, !.ret = R.ret]
    ELSE [mw_advance(P) EXCEPT !.ret = "UNKNOWN"]

(* The operator loop of parseExpression: P.ret is the type so far.          *)
RECURSIVE mw_ExpressionLoop(_)
mw_ExpressionLoop(P) ==
    IF ~mw_isOp(mw_curr(P)) THEN P
    ELSE LET op == mw_curr(P)
             A == mw_advance(P)
         IN  IF mw_curr(A).type \in {"SEMICOLON", "RPAREN", "RBRACE", "COMMA"}
             THEN mw_Error(A, op,
                           "Incomplete expression: missing operand after '" \o op.value \o "'",
                           "SUGGESTION: Complete the expression. Example: x + y")
             ELSE LET R == mw_Call("parsePrimaryWithType", A, <<>>)
                      res == mw_getOperationResultType(P.ret, R.ret, op.value)
                  IN  IF P.ret # "UNKNOWN" /\ R.ret # "UNKNOWN"
                      THEN IF res = "INVALID"
                           THEN mw_ExpressionLoop(
                                  [mw_Error(R, op,
                                       "Type error: cannot apply '" \o op.value \o "' to '"
                                          \o P.ret \o "' and '" \o R.ret \o "'",
                                       "SUGGESTION: Ensure both operands are compatible types")
                                     EXCEPT !.ret = P.ret])
                           ELSE IF res # "UNKNOWN"
                           THEN mw_ExpressionLoop([R EXCEPT !.ret = res])
                           ELSE mw_ExpressionLoop([R EXCEPT !.ret = P.ret])
                      ELSE mw_ExpressionLoop([R EXCEPT !.ret = P.ret])

mw_parseExpression(P) == mw_ExpressionLoop(mw_Call("parsePrimaryWithType", P, <<>>))

mw_parseExprOrAssignment(P) ==
    IF mw_curr(P).type = "TOK_IDENTIFIER" /\ mw_peek(P).type = "OP_ASSIGN"
    THEN LET id == mw_curr(P)
             varType == mw_getType(P, id.value)
             E == IF ~mw_exists(P, id.value)
                  THEN mw_Error(P, id, "Undeclared variable '" \o id.value \o "'",
                                mw_getSuggestion("Undeclared variable '"))
                  ELSE P
             assignTok == mw_curr(mw_advance(E))
             R == mw_Call("parseExpression", mw_advance(mw_advance(E)), <<>>)
         IN  IF varType # "UNKNOWN" /\ R.ret # "UNKNOWN"
                /\ ~mw_areTypesCompatible(varType, R.ret)
             THEN mw_Error(R, assignTok,
                           "Type error: assigning '" \o R.ret \o "' to '" \o varType \o "'",
                           "SUGGESTION: Types must match. " \o varType \o " expected, "
                              \o R.ret \o " provided")
             ELSE R
    ELSE mw_Call("parseExpression", P, <<>>)

(* "[" number "]" after a declared name: P.ret is the declared type.        *)
mw_ArraySuffix(P) ==
    IF mw_curr(P).type = "LBRACKET"
    THEN LET A == mw_advance(P)
             B == IF mw_curr(A).type = "TOK_NUMBER" THEN mw_advance(A) ELSE A
         IN  [mw_expect(B, "RBRACKET", "]") EXCEPT !.ret = P.ret \o "[]"]
    ELSE P

(* declare of a variable with the diagnostic of a redeclaration.            *)
mw_DeclareVariable(P, t, type) ==
    LET D == mw_declare(P, t.value, type, t.line, t.column) IN
    IF ~D.ret
    THEN mw_Error(D, t, "Redeclaration of '" \o t.value \o "'",
                  mw_getSuggestion("Redeclaration of '"))
    ELSE D

(* An initialiser that is an expression, for a variable of type declared.   *)
mw_Initializer(P, declared, sug) ==
    LET assignTok == mw_curr(P)
        R == mw_Call("parseExpression", mw_advance(P), <<>>)
    IN  IF R.ret # "UNKNOWN" /\ ~mw_areTypesCompatible(declared, R.ret)
        THEN mw_Error(R, assignTok,
                      "Type mismatch: assigning '" \o R.ret \o "' to '" \o declared \o "'",
                      sug)
        ELSE R

(* The loop over the further declarators of parseVarDecl.                   *)
RECURSIVE mw_MoreDeclarators(_, _)
mw_MoreDeclarators(P, type) ==
    IF mw_curr(P).type # "COMMA" THEN P
    ELSE LET S == mw_Stars([mw_advance(P) EXCEPT !.ret = type]) IN
         IF mw_curr(S).type # "TOK_IDENTIFIER"
         THEN mw_Error(S, mw_curr(S), "Expected identifier",
                       "SUGGESTION: Provide a variable name after ',' (example: int *a, **b;)")
         ELSE LET t == mw_curr(S)
                  A == mw_ArraySuffix(mw_advance(S))
                  D == mw_DeclareVariable(A, t, A.ret)
              IN  IF mw_curr(D).type = "OP_ASSIGN"
                  THEN mw_MoreDeclarators(
                         mw_Initializer(D, A.ret,
                            "SUGGESTION: Ensure initializer type matches the declared variable type"),
                         type)
                  ELSE mw_MoreDeclarators(D, type)

mw_parseVarDecl(P, type, firstIdent) ==
    LET A == mw_ArraySuffix([P EXCEPT !.ret = type])
        D == mw_DeclareVariable(A, firstIdent, A.ret)
        I == IF mw_curr(D).type = "OP_ASSIGN"
             THEN IF mw_curr(mw_advance(D)).type = "LBRACE"
                  THEN mw_expect(mw_ExpressionList(mw_advance(mw_advance(D)), "RBRACE"),
                                 "RBRACE", "}")
                  ELSE mw_Initializer(D, A.ret,
                         "SUGGESTION: Types must be compatible or cast the value explicitly")
             ELSE D
        M == mw_MoreDeclarators(I, type)
    IN  IF mw_curr(M).type = "SEMICOLON" THEN mw_advance(M)
        ELSE mw_Error(M, mw_curr(M), "Missing ';' after variable declaration",
                      mw_getSuggestion("Missing ';' after variable declaration"))

(* The parameter loop of parseFunction.                                     *)
RECURSIVE mw_Parameters(_)
mw_Parameters(P) ==
    IF mw_curr(P).type = "RPAREN" \/ mw_curr(P).type = "END_OF_FILE" THEN P
    ELSE IF ~mw_isTypeToken(mw_curr(P)) THEN P
    ELSE LET S == mw_Stars([mw_advance(P) EXCEPT !.ret = mw_tokenTypeToString(mw_curr(P))])
             N == IF mw_curr(S).type = "TOK_IDENTIFIER"
                  THEN LET t == mw_curr(S)
                           D == mw_declare(mw_advance(S), t.value, S.ret, t.line, t.column)
                       IN  IF ~D.ret
                           THEN mw_Error(D, t, "Redeclaration of parameter '" \o t.value \o "'",
                                         mw_getSuggestion("Redeclaration of parameter '"))
                           ELSE D
                  ELSE S
         IN  IF mw_curr(N).type = "COMMA" THEN mw_Parameters(mw_advance(N)) ELSE N

(* A block after its '{', which the caller has counted: parse is the       *)
(* function of the block, missing the diagnostic of a missing '}' ("" if   *)
(* there is none).                                                          *)
mw_Braces(P, parse, a, missing) ==
    LET B == mw_Call(parse, mw_advance([P EXCEPT !.braceBalance = @ + 1]), a) IN
    IF mw_curr(B).type = "RBRACE" THEN mw_advance([B EXCEPT !.braceBalance = @ - 1])
    ELSE IF missing = "" THEN B
    ELSE mw_Error(B, mw_curr(B), missing, mw_getSuggestion(missing))

mw_parseFunction(P, returnType, funcName, funcToken) ==
    LET D == mw_declare(P, funcName, returnType, funcToken.line, funcToken.column)
        E == IF ~D.ret
             THEN mw_Error(D, funcToken, "Redeclaration of function '" \o funcName \o "'",
                           mw_getSuggestion("Redeclaration of function '"))
             ELSE D
        R == mw_expect(mw_Parameters(mw_enterScope(mw_expect(E, "LPAREN", "("))),
                       "RPAREN", ")")
    IN  mw_exitScope(
          IF mw_curr(R).type = "LBRACE"
          THEN mw_Braces(R, "parseBlockWithReturnCheck", <<returnType>>,
                         "Expected '}' at end of function '" \o funcName \o "'")
          ELSE mw_Error(R, mw_curr(R),
                        "Expected '{' to start body of function '" \o funcName \o "'",
                        mw_getSuggestion("Expected '{' to start body of function '")))

(* The skip to ';' or '{' of parseFunctionOrVarDecl.                        *)
RECURSIVE mw_SkipDeclaration(_)
mw_SkipDeclaration(P) ==
    IF mw_curr(P).type \in {"SEMICOLON", "LBRACE", "END_OF_FILE"} THEN P
    ELSE mw_SkipDeclaration(mw_advance(P))

mw_parseFunctionOrVarDecl(P, baseType) ==
    LET S == mw_Stars([P EXCEPT !.ret = baseType]) IN
    IF mw_curr(S).type # "TOK_IDENTIFIER"
    THEN LET K == mw_SkipDeclaration(
                    mw_Error(S, mw_curr(S),
                             "Expected identifier after type '" \o baseType \o "'",
                             mw_getSuggestion("Expected identifier after type '")))
         IN  IF mw_curr(K).type = "LBRACE" THEN mw_Braces(K, "parseBlock", <<>>, "")
             ELSE IF mw_curr(K).type = "SEMICOLON" THEN mw_advance(K)
             ELSE K
    ELSE IF mw_curr(mw_advance(S)).type = "LPAREN"
    THEN mw_Call("parseFunction", mw_advance(S), <<S.ret, mw_curr(S).value, mw_curr(S)>>)
    ELSE mw_Call("parseVarDecl", mw_advance(S), <<S.ret, mw_curr(S)>>)

(* A declaration inside a block.                                            *)
mw_BlockDeclaration(P) ==
    mw_Call("parseFunctionOrVarDecl", mw_advance(P), <<mw_tokenTypeToString(mw_curr(P))>>)

(* The loop of parseBlock.                                                  *)
RECURSIVE mw_BlockLoop(_)
mw_BlockLoop(P) ==
    IF mw_curr(P).type = "RBRACE" \/ mw_curr(P).type = "END_OF_FILE" THEN P
    ELSE IF mw_isTypeToken(mw_curr(P)) THEN mw_BlockLoop(mw_BlockDeclaration(P))
    ELSE IF mw_curr(P).type = "TOK_RETURN"
    THEN mw_BlockLoop(mw_expect(mw_Call("parseExpression", mw_advance(P), <<>>),
                                "SEMICOLON", ";"))
    ELSE mw_BlockLoop(mw_Call("parseStatement", P, <<>>))

mw_parseBlock(P) == mw_exitScope(mw_BlockLoop(mw_enterScope(P)))

(* The loop of parseBlockWithReturnCheck; P.ret of the result is hasReturn. *)
RECURSIVE mw_ReturnCheckLoop(_, _, _)
mw_ReturnCheckLoop(P, returnType, hasReturn) ==
    IF mw_curr(P).type = "RBRACE" \/ mw_curr(P).type = "END_OF_FILE"
    THEN [P EXCEPT !.ret = hasReturn]
    ELSE IF mw_isTypeToken(mw_curr(P))
    THEN mw_ReturnCheckLoop(mw_BlockDeclaration(P), returnType, hasReturn)
    ELSE IF mw_curr(P).type = "TOK_RETURN"
    THEN LET R == mw_Call("parseExpression", mw_advance(P), <<>>)
             E == IF returnType # "void" /\ R.ret # "UNKNOWN"
                     /\ ~mw_areTypesCompatible(returnType, R.ret)
                  THEN mw_Error(R, mw_curr(P),
                         "Return type mismatch: function returns '" \o returnType
                            \o "' but return expression is '" \o R.ret \o "'",
                         "SUGGESTION: Ensure the expression type matches the function's return type")
                  ELSE R
         IN  mw_ReturnCheckLoop(mw_expect(E, "SEMICOLON", ";"), returnType, TRUE)
    ELSE mw_ReturnCheckLoop(mw_Call("parseStatement", P, <<>>), returnType, hasReturn)

mw_parseBlockWithReturnCheck(P, returnType) ==
    LET L == mw_ReturnCheckLoop(mw_enterScope(P), returnType, FALSE) IN
    mw_exitScope(
      IF returnType # "void" /\ ~L.ret
      THEN mw_Summary(L, "Missing return statement in non-void function",
                      "SUGGESTION: Add 'return <value>;' before the end of the function")
      ELSE L)

(* The condition and the statement of an if and of a while.                 *)
mw_Condition(P, word) ==
    LET R == mw_Call("parseExpression", mw_expect(mw_advance(P), "LPAREN", "("), <<>>)
        E == IF R.ret # "UNKNOWN" /\ ~mw_isNumericType(R.ret)
             THEN mw_Error(R, mw_curr(R),
                           "Condition in " \o word \o " must be numeric/bool-like, got '"
                              \o R.ret \o "'",
                           "SUGGESTION: Use an integer or comparison expression in "
                              \o word \o " condition")
             ELSE R
    IN  mw_Call("parseStatement", mw_expect(E, "RPAREN", ")"), <<>>)

mw_parseIfStatement(P) ==
    LET S == mw_Condition(P, "if") IN
    IF mw_curr(S).type = "TOK_ELSE" THEN mw_Call("parseStatement", mw_advance(S), <<>>)
    ELSE S

mw_parseWhileStatement(P) == mw_Condition(P, "while")

mw_parseStatement(P) ==
    LET t == mw_curr(P) IN
    IF t.type = "TOK_IF" THEN mw_Call("parseIfStatement", P, <<>>)
    ELSE IF t.type = "TOK_WHILE" THEN mw_Call("parseWhileStatement", P, <<>>)
    ELSE IF t.type = "LBRACE"
    THEN mw_Braces(P, "parseBlock", <<>>, "Expected '}' to close block")
    ELSE IF t.type = "TOK_RETURN"
    THEN LET R == mw_Call("parseExpression", mw_advance(P), <<>>) IN
         IF mw_curr(R).type = "SEMICOLON" THEN mw_advance(R)
         ELSE mw_Error(R, mw_curr(R), "Missing ';' after return statement",
                       mw_getSuggestion("Missing ';' after return statement"))
    ELSE LET R == mw_Call("parseExprOrAssignment", P, <<>>) IN
         IF mw_curr(R).type = "SEMICOLON" THEN mw_advance(R)
         ELSE IF mw_curr(R).type # "RBRACE" /\ mw_curr(R).type # "END_OF_FILE"
         THEN mw_Error(R, mw_curr(R), "Missing ';' after statement",
                       mw_getSuggestion("Missing ';' after statement"))
         ELSE R

mw_parseTopLevel(P) ==
    IF mw_isTypeToken(mw_curr(P))
    THEN mw_Call("parseFunctionOrVarDecl", mw_advance(P),
                 <<mw_tokenTypeToString(mw_curr(P))>>)
    ELSE mw_advance(P)

mw_Call(f, P, a) ==
    CASE f = "parseTopLevel" -> mw_parseTopLevel(P)
      [] f = "parseFunctionOrVarDecl" -> mw_parseFunctionOrVarDecl(P, a[1])
      [] f = "parseFunction" -> mw_parseFunction(P, a[1], a[2], a[3])
      [] f = "parseVarDecl" -> mw_parseVarDecl(P, a[1], a[2])
      [] f = "parseBlock" -> mw_parseBlock(P)
      [] f = "parseBlockWithReturnCheck" -> mw_parseBlockWithReturnCheck(P, a[1])
      [] f = "parseStatement" -> mw_parseStatement(P)
      [] f = "parseIfStatement" -> mw_parseIfStatement(P)
      [] f = "parseWhileStatement" -> mw_parseWhileStatement(P)
      [] f = "parsePrimaryWithType" -> mw_parsePrimaryWithType(P)
      [] f = "parseExpression" -> mw_parseExpression(P)
      [] f = "parseExprOrAssignment" -> mw_parseExprOrAssignment(P)

-----------------------------------------------------------------------------
(* The programs the stand-alone analyzer is run on.  A word is the type    *)
(* and the text of a token; a program is a function header, then ';' (a    *)
(* prototype) or '{', at most MaxBody statements and, if closed, '}'.      *)
(* The Tokenizer is not modelled: the tokens are those of the words        *)
(* written on one line with one space between them, and END_OF_FILE at     *)
(* the start of the next line, main ending every line with "\n".            *)

MaxBody == 2

Word(t, v) == [type |-> t, value |-> v]

wInt == Word("TOK_INT", "int")
wVoid == Word("TOK_VOID", "void")
wReturn == Word("TOK_RETURN", "return")
wIf == Word("TOK_IF", "if")
wWhile == Word("TOK_WHILE", "while")
wF == Word("TOK_IDENTIFIER", "f")
wX == Word("TOK_IDENTIFIER", "x")
wOne == Word("TOK_NUMBER", "1")
wLP == Word("LPAREN", "(")
wRP == Word("RPAREN", ")")
wLB == Word("LBRACE", "{")
wRB == Word("RBRACE", "}")
wSemi == Word("SEMICOLON", ";")
wAssign == Word("OP_ASSIGN", "=")
wPlus == Word("OP_PLUS", "+")

Headers == {<<wInt, wF, wLP, wRP>>, <<wVoid, wF, wLP, wRP>>, <<wInt, wF, wLP, wInt, wX, wRP>>}

ReturnOne == <<wReturn, wOne, wSemi>>

(* The statements that hold a return statement inside a block, an if or a  *)
(* while, and those that hold none.                                         *)
NestedReturns ==
    {<<wLB>> \o ReturnOne \o <<wRB>>,
     <<wIf, wLP, wOne, wRP>> \o ReturnOne,
     <<wIf, wLP, wOne, wRP, wLB>> \o ReturnOne \o <<wRB>>,
     <<wWhile, wLP, wOne, wRP, wLB>> \o ReturnOne \o <<wRB>>}

PlainStatements ==
    {<<wInt, wX, wSemi>>, <<wX, wAssign, wOne, wPlus, wOne, wSemi>>,
     <<wLP, wOne, wRP, wSemi>>}

(* The statements with a bracket that has no partner.                       *)
BrokenStatements ==
    {<<wInt, wX, wAssign, wLP, wOne, wSemi>>, <<wLP, wLP, wOne, wRP, wSemi>>,
     <<wRP, wSemi>>, <<wLB>>, <<wRB>>}

Statements == {ReturnOne} \cup NestedReturns \cup PlainStatements \cup BrokenStatements

RECURSIVE StatementSeqs(_)
StatementSeqs(n) ==
    IF n = 0 THEN {<<>>}
    ELSE LET S == StatementSeqs(n - 1) IN
         S \cup {Append(b, s) : b \in {t \in S : Len(t) = n - 1}, s \in Statements}

MWPrograms ==
    {[header |-> h, body |-> b, end |-> e] :
        h \in Headers, b \in StatementSeqs(MaxBody), e \in {"}", ""}}
    \cup {[header |-> h, body |-> <<>>, end |-> ";"] : h \in Headers}

RECURSIVE Flatten(_)
Flatten(ss) == IF ss = <<>> THEN <<>> ELSE Head(ss) \o Flatten(Tail(ss))

Words(p) ==
    IF p.end = ";" THEN p.header \o <<wSemi>>
    ELSE p.header \o <<wLB>> \o Flatten(p.body) \o (IF p.end = "}" THEN <<wRB>> ELSE <<>>)

(* The tokens of the words ws from column c on, then END_OF_FILE.           *)
RECURSIVE Layout(_, _)
Layout(ws, c) ==
    IF ws = <<>> THEN <<mw_Token("END_OF_FILE", "", 2, 1)>>
    ELSE <<mw_Token(Head(ws).type, Head(ws).value, 1, c)>>
         \o Layout(Tail(ws), c + Len(Head(ws).value) + 1)

(* main of the stand-alone analyzer: pc is "mw_parse" while the loop of    *)
(* Parser::parse runs and "mw_done" after it; result is getErrors().        *)
MWInit ==
    /\ source \in MWPrograms
    /\ pc = "mw_parse"
    /\ lexer = <<>>
    /\ tokens = Layout(Words(source), 1)
    /\ parser = mw_NewParser(tokens)
    /\ result = <<>>

(* One iteration of the loop of parse.                                      *)
MWParseTopLevel ==
    /\ pc = "mw_parse"
    /\ mw_curr(parser).type # "END_OF_FILE"
    /\ parser' = mw_Call("parseTopLevel", parser, <<>>)
    /\ UNCHANGED <<source, pc, lexer, tokens, result>>

(* The end of parse: the two summaries of the balance counters.             *)
mw_Balance(P) ==
    LET A == IF P.parenBalance # 0
             THEN mw_Summary(P, "Unbalanced '(' and ')' in code.",
                             mw_getSuggestion("Unbalanced '(' and ')' in code."))
             ELSE P
    IN  IF A.braceBalance # 0
        THEN mw_Summary(A, "Unbalanced '{' and '}' in code.",
                        mw_getSuggestion("Unbalanced '{' and '}' in code."))
        ELSE A

MWParseEnd ==
    /\ pc = "mw_parse"
    /\ mw_curr(parser).type = "END_OF_FILE"
    /\ parser' = mw_Balance(parser)
    /\ result' = mw_Balance(parser).errors
    /\ pc' = "mw_done"
    /\ UNCHANGED <<source, lexer, tokens>>

MWNext == MWParseTopLevel \/ MWParseEnd

SpecMW == MWInit /\ [][MWNext]_vars

-----------------------------------------------------------------------------
(* Properties of the stand-alone analyzer.                                  *)

MissingReturn == "Missing return statement in non-void function"
UnbalancedParens == "Unbalanced '(' and ')' in code."
UnbalancedBraces == "Unbalanced '{' and '}' in code."

(* How many of the diagnostics errs have the text t.                        *)
Reported(errs, t) == Cardinality({i \in 1..Len(errs) : errs[i].text = t})

(* How many tokens of type open among toks[i..] have no partner of type    *)
(* close after them, d of those before toks[i] still waiting for one.      *)
RECURSIVE Unclosed(_, _, _, _, _)
Unclosed(toks, open, close, i, d) ==
    IF i > Len(toks) THEN d
    ELSE Unclosed(toks, open, close, i + 1,
                  IF toks[i].type = open THEN d + 1
                  ELSE IF toks[i].type = close /\ d > 0 THEN d - 1
                  ELSE d)

(* The brace that opens at toks[i - 1] with depth d = 1 has its partner    *)
(* among toks[i..].                                                         *)
RECURSIVE Closes(_, _, _)
Closes(toks, i, d) ==
    IF i > Len(toks) THEN FALSE
    ELSE IF toks[i].type = "LBRACE" THEN Closes(toks, i + 1, d + 1)
    ELSE IF toks[i].type = "RBRACE" THEN d = 1 \/ Closes(toks, i + 1, d - 1)
    ELSE Closes(toks, i + 1, d)

(* The program p is a function definition whose body is left open.         *)
OpenFunctionBody(p) ==
    p.end # ";" /\ ~Closes(Layout(Words(p), 1), Len(p.header) + 2, 1)

(* The body of the program p is made of whole statements and ends with     *)
(* its '}', and some statement of it, nested or not, is a return.          *)
WholeBody(p) ==
    /\ p.end = "}"
    /\ \A i \in 1..Len(p.body) : p.body[i] \notin BrokenStatements

HasReturn(p) == \E i \in 1..Len(p.body) : p.body[i] \in {ReturnOne} \cup NestedReturns

(* C9: a function definition is reported with "Missing return statement in *)
(* non-void function" exactly when its return type is not void and its     *)
(* body holds no return statement, a return inside a nested block, if or   *)
(* while counting as one; void functions and prototypes are never          *)
(* reported.                                                                *)
C9_MissingReturnExactlyWhenNoReturn ==
    (pc = "mw_done" /\ (WholeBody(source) \/ source.end = ";"))
        => Reported(result, MissingReturn) =
               (IF source.end = "}" /\ source.header[1] # wVoid /\ ~HasReturn(source)
                THEN 1 ELSE 0)

(* C10: at the end of parsing the summary of unbalanced parentheses is     *)
(* added exactly when some '(' has no ')', the summary of unbalanced        *)
(* braces exactly when some '{' has no '}', a function body without its     *)
(* closing brace is always reported, and the brace counter is never         *)
(* negative.                                                                *)
C10_BalanceSummaries ==
    /\ parser.braceBalance >= 0
    /\ pc = "mw_done" =>
        /\ Reported(result, UnbalancedParens) =
               (IF Unclosed(tokens, "LPAREN", "RPAREN", 1, 0) > 0 THEN 1 ELSE 0)
        /\ Reported(result, UnbalancedBraces) =
               (IF Unclosed(tokens, "LBRACE", "RBRACE", 1, 0) > 0 THEN 1 ELSE 0)
        /\ OpenFunctionBody(source)
               => Reported(result, "Expected '}' at end of function 'f'") = 1

-----------------------------------------------------------------------------
(* Further properties of analyzeCode.                                       *)

(* How the string literal that opens at s[1] ends, read from s[i] on, and  *)
(* its last character: a backslash takes the character after it along.     *)
RECURSIVE LiteralEnd(_, _)
LiteralEnd(s, i) ==
    IF i > Len(s) THEN [how |-> "eof", upto |-> Len(s)]
    ELSE IF s[i] = "\"" THEN [how |-> "closed", upto |-> i]
    ELSE IF s[i] = "\n" THEN [how |-> "newline", upto |-> i - 1]
    ELSE IF s[i] = "\\" /\ i < Len(s) THEN LiteralEnd(s, i + 2)
    ELSE LiteralEnd(s, i + 1)

(* The texts of the diagnostics of errs at line l, column c, in order.     *)
TextsAt(errs, l, c) ==
    Texts(SelectSeq(errs, LAMBDA d : d.line = l /\ d.column = c))

StartsWithQuote(s) ==
    /\ s # <<>>
    /\ s[1] = "\""
    /\ \A i \in 1..Len(s) : s[i] # NUL

(* C11: a string literal that is not closed gives an error token and       *)
(* exactly one lexical diagnostic, "(newline in string)" when a newline    *)
(* comes before the closing quote and "(EOF reached)" when the input ends   *)
(* first; a backslash and the character after it are passed through as     *)
(* two characters and never close the literal.                              *)
C11_UnterminatedStringOneDiagnostic ==
    (pc = "done" /\ StartsWithQuote(source)) =>
        LET e == LiteralEnd(source, 2)
            D == TextsAt(result.lexicalErrors, 1, 1)
        IN  /\ tokens[1].value = SubSeq(source, 1, e.upto)
            /\ e.how = "closed" => tokens[1].type = "TOK_STRING" /\ D = <<>>
            /\ e.how = "newline" =>
                   /\ tokens[1].type = "TOK_ERROR"
                   /\ D = <<"Unterminated string literal (newline in string)">>
            /\ e.how = "eof" =>
                   /\ tokens[1].type = "TOK_ERROR"
                   /\ D = <<"Unterminated string literal (EOF reached)">>

-----------------------------------------------------------------------------
(* CErrorDetectorEngine objects in use: analyzeCode and analyzeFile called *)
(* one after another on the same engine, and at the same time on two       *)
(* engines.  In this specification every variable is a function of the     *)
(* engine: lexer[e] and parser[e] are the objects the members lexer and    *)
(* parser of e point to (<<>> for nullptr), which stay as the last call    *)
(* left them; tokens[e] is the local of the running call; source[e] is     *)
(* the sequence of the calls made on e and result[e] the sequence of the   *)
(* results they returned; pc[e] is "idle" between the calls.               *)

Engines == {1, 2}

MaxCalls == 2

(* The files that can be opened, with their contents.                      *)
Files == ("a.c" :> DeclIntX) @@ ("b.c" :> AssignX)

Paths == DOMAIN Files \cup {"missing.c"}

EngineTexts == {DeclIntX, AssignX, InvalidChar, <<"\"">>}

EngineCalls ==
    {[fn |-> "analyzeCode", arg |-> t] : t \in EngineTexts}
    \cup {[fn |-> "analyzeFile", arg |-> p] : p \in Paths}

EngineInit ==
    /\ source = [e \in Engines |-> <<>>]
    /\ pc = [e \in Engines |-> "idle"]
    /\ lexer = [e \in Engines |-> <<>>]
    /\ parser = [e \in Engines |-> <<>>]
    /\ tokens = [e \in Engines |-> <<>>]
    /\ result = [e \in Engines |-> <<>>]

(* A Parser that keeps the symbol table of the one before it.              *)
ConstructParser_KeepSymbols(old, toks) ==
    IF old = <<>> THEN [NewParser(toks) EXCEPT !.ret = 0]
    ELSE [NewParser(toks) EXCEPT !.ret = 0, !.sym = old.sym]

(* "parser = new Parser(tokens)": old is the object the member pointed to. *)
ConstructParser(old, toks) == [NewParser(toks) EXCEPT !.ret = 0]

(* "lexer = new Lexer(sourceCode)", the first statement of analyzeCode.    *)
ConstructLexer(old, code) == NewLexer(code)

(* The result analyzeCode returns from the lexer L and the parser P.       *)
AnalysisResult(L, P) ==
    [lexicalErrors |-> L.errors,
     syntaxErrors |-> P.errors,
     totalErrors |-> Len(L.errors) + Len(P.errors)]

(* The result for a file that cannot be opened, the error not counted.     *)
CouldNotOpen_Uncounted(filename) ==
    [lexicalErrors |-> <<"ERROR: Could not open file '" \o filename \o "'">>,
     syntaxErrors |-> <<>>,
     totalErrors |-> 0]

(* The result of analyzeFile for a file that cannot be opened.             *)
CouldNotOpen(filename) ==
    [lexicalErrors |-> <<"ERROR: Could not open file '" \o filename \o "'">>,
     syntaxErrors |-> <<>>,
     totalErrors |-> 1]

(* The parser when the loop of parseProgram is left.                       *)
AfterLoop(P) ==
    LET iter == IF curr(P).type = "TOK_EOF" THEN P.ret ELSE P.ret + 1
        Q == IF iter >= maxIter
             THEN [P EXCEPT !.errors = Append(@,
                     SynDiag("", 0, 0, "Parser stuck - aborting", ""))]
             ELSE P
    IN  [Q EXCEPT !.ret = iter]

(* Engine e enters analyzeCode(code).                                      *)
EnterAnalyzeCode(e, code) ==
    /\ lexer' = [lexer EXCEPT ![e] = ConstructLexer(lexer[e], code)]
    /\ tokens' = [tokens EXCEPT ![e] = <<>>]
    /\ pc' = [pc EXCEPT ![e] = "lex"]
    /\ UNCHANGED <<parser, result>>

EngineAnalyzeCode(e) ==
    /\ pc[e] = "idle"
    /\ Len(source[e]) < MaxCalls
    /\ \E t \in EngineTexts :
          /\ source' = [source EXCEPT ![e] = Append(@, [fn |-> "analyzeCode", arg |-> t])]
          /\ EnterAnalyzeCode(e, t)

(* analyzeFile: the file is opened and analysed, or cannot be opened.      *)
EngineAnalyzeFile(e) ==
    /\ pc[e] = "idle"
    /\ Len(source[e]) < MaxCalls
    /\ \E p \in Paths :
          /\ source' = [source EXCEPT ![e] = Append(@, [fn |-> "analyzeFile", arg |-> p])]
          /\ IF p \in DOMAIN Files
             THEN EnterAnalyzeCode(e, Files[p])
             ELSE /\ result' = [result EXCEPT ![e] = Append(@, CouldNotOpen(p))]
                  /\ UNCHANGED <<pc, lexer, tokens, parser>>

EngineTokenizeStep(e) ==
    /\ pc[e] = "lex"
    /\ LET R == getNextToken(lexer[e])
           toks == Append(tokens[e], R.tok)
       IN  /\ lexer' = [lexer EXCEPT ![e] = R.L]
           /\ tokens' = [tokens EXCEPT ![e] = toks]
           /\ IF R.tok.type = "TOK_EOF"
              THEN /\ pc' = [pc EXCEPT ![e] = "parse"]
                   /\ parser' = [parser EXCEPT ![e] = ConstructParser(parser[e], toks)]
              ELSE UNCHANGED <<pc, parser>>
    /\ UNCHANGED <<source, result>>

EngineParseProgramStep(e) ==
    /\ pc[e] = "parse"
    /\ ~parser[e].stalled
    /\ curr(parser[e]).type # "TOK_EOF"
    /\ parser[e].ret < maxIter
    /\ parser' = [parser EXCEPT
                    ![e] = NextIteration(parser[e], Call("ProgramItem", parser[e], <<>>))]
    /\ UNCHANGED <<source, pc, lexer, tokens, result>>

EngineParseProgramExit(e) ==
    /\ pc[e] = "parse"
    /\ ~parser[e].stalled
    /\ curr(parser[e]).type = "TOK_EOF" \/ ~(parser[e].ret < maxIter)
    /\ parser' = [parser EXCEPT ![e] = AfterLoop(parser[e])]
    /\ result' = [result EXCEPT ![e] = Append(@, AnalysisResult(lexer[e], AfterLoop(parser[e])))]
    /\ pc' = [pc EXCEPT ![e] = "idle"]
    /\ UNCHANGED <<source, lexer, tokens>>

EngineNext ==
    \E e \in Engines :
        \/ EngineAnalyzeCode(e)
        \/ EngineAnalyzeFile(e)
        \/ EngineTokenizeStep(e)
        \/ EngineParseProgramStep(e)
        \/ EngineParseProgramExit(e)

SpecEngine == EngineInit /\ [][EngineNext]_vars

(* The text call c analyses, <<"missing">> standing for none.              *)
CodeOf(c) ==
    IF c.fn = "analyzeCode" THEN c.arg
    ELSE IF c.arg \in DOMAIN Files THEN Files[c.arg]
    ELSE <<"missing">>

(* The calls of engine e that have returned.                               *)
Returned(e) == 1..Len(result[e])

(* C12: two analyses of the same text return the same lexical and syntax   *)
(* diagnostics in the same order, on a fresh engine, on an engine that     *)
(* has analysed other texts before, and on another engine whose calls      *)
(* run in between.                                                          *)
C12_SameTextSameResult ==
    \A e1 \in Engines, e2 \in Engines :
        \A i \in Returned(e1), j \in Returned(e2) :
            CodeOf(source[e1][i]) = CodeOf(source[e2][j]) => result[e1][i] = result[e2][j]

(* Engine 1 has analysed a text with diagnostics after another text, and   *)
(* engine 2, now in the middle of its second call, analysed that text      *)
(* first.                                                                   *)
C12_Witness ==
    /\ Len(result[1]) = 2
    /\ CodeOf(source[1][1]) # CodeOf(source[1][2])
    /\ result[1][2].totalErrors > 0
    /\ result[1][1].totalErrors = 0
    /\ Len(result[2]) = 1
    /\ pc[2] = "parse"
    /\ CodeOf(source[2][1]) = CodeOf(source[1][2])
    /\ source[2][1].fn # source[1][2].fn

(* C15: analyzeFile on a path that cannot be opened returns exactly the    *)
(* one lexical entry "ERROR: Could not open file '<path>'", no syntax      *)
(* entry and totalErrors 1, and an engine that was only given such paths   *)
(* has constructed no lexer and no parser; in every other result           *)
(* totalErrors is the number of lexical plus the number of syntax errors.  *)
C15_UnopenableFile ==
    \A e \in Engines :
        /\ \A i \in Returned(e) :
              IF CodeOf(source[e][i]) = <<"missing">>
              THEN /\ result[e][i].lexicalErrors =
                          <<"ERROR: Could not open file '" \o source[e][i].arg \o "'">>
                   /\ result[e][i].syntaxErrors = <<>>
                   /\ result[e][i].totalErrors = 1
              ELSE result[e][i].totalErrors =
                       Len(result[e][i].lexicalErrors) + Len(result[e][i].syntaxErrors)
        /\ (\A i \in 1..Len(source[e]) : CodeOf(source[e][i]) = <<"missing">>)
              => lexer[e] = <<>> /\ parser[e] = <<>> /\ pc[e] = "idle"

(* An engine has returned from analyzeFile on a path that cannot be        *)
(* opened and from an analysis with errors.                                 *)
C15_Witness ==
    \E e \in Engines :
        /\ Len(result[e]) = 2
        /\ CodeOf(source[e][1]) = <<"missing">>
        /\ result[e][2].totalErrors > 0
        /\ \E d \in Engines : Len(source[d]) = 1 /\ Len(result[d]) = 1 /\ lexer[d] = <<>>

(* C13: every syntax-error entry analyzeCode returns carries a suggestion: *)
(* the one of a matching trigger, or the fallback of getSuggestion when no *)
(* trigger occurs in the message; no entry has an empty suggestion.        *)
C13_EverySyntaxErrorHasSuggestion ==
    pc = "done" =>
        \A i \in 1..Len(result.syntaxErrors) : result.syntaxErrors[i].suggestion # ""

(* C14: every lexical and every syntax diagnostic analyzeCode returns has  *)
(* the form "Line L:C - text" with L >= 1 and C >= 1, the diagnostics at   *)
(* the end of the input and the summary and abort diagnostics included.    *)
C14_EveryDiagnosticHasLineAndColumn ==
    pc = "done" =>
        /\ \A i \in 1..Len(result.lexicalErrors) :
              result.lexicalErrors[i].line >= 1 /\ result.lexicalErrors[i].column >= 1
        /\ \A i \in 1..Len(result.syntaxErrors) :
              /\ result.syntaxErrors[i].prefix = "Line"
              /\ result.syntaxErrors[i].line >= 1
              /\ result.syntaxErrors[i].column >= 1

-----------------------------------------------------------------------------
(* A SymbolTable used through its public functions, in any order.  In this *)
(* specification parser is the table, [sym, ub]: sym its vector scopes and *)
(* ub set once declare has read the back of the empty vector, after which  *)
(* nothing is known of the object; source is the last call made, result    *)
(* the value it returned (<<>> for none) and tokens the vector scopes      *)
(* before it.  pushScope is called while fewer than MaxDepth scopes are    *)
(* on the vector.                                                           *)

MaxDepth == 3

SymbolNames == {"x", "printf"}

SymbolTypes == {Ty("int"), Ty("char")}

SymbolInit ==
    /\ source = <<"SymbolTable">>
    /\ pc = "symbols"
    /\ lexer = <<>>
    /\ tokens = <<>>
    /\ parser = [sym |-> NewSymbolTable, ub |-> FALSE]
    /\ result = <<>>

(* The frame of a call: the table is in a known state before it.           *)
SymbolCall(call) ==
    /\ ~parser.ub
    /\ source' = call
    /\ tokens' = parser.sym
    /\ UNCHANGED <<pc, lexer>>

SymbolPushScope ==
    /\ Len(parser.sym) < MaxDepth
    /\ SymbolCall(<<"pushScope">>)
    /\ parser' = [parser EXCEPT !.sym = pushScope(@)]
    /\ result' = <<>>

SymbolPopScope ==
    /\ SymbolCall(<<"popScope">>)
    /\ parser' = [parser EXCEPT !.sym = popScope(@)]
    /\ result' = <<>>

(* declare; on the empty vector it may return either value.                 *)
SymbolDeclare ==
    \E n \in SymbolNames, t \in SymbolTypes :
        /\ SymbolCall(<<"declare", n, t>>)
        /\ LET d == declare(parser.sym, n, t, 0, 0) IN
           /\ parser' = [sym |-> d.scopes, ub |-> d.ub]
           /\ IF d.ub THEN result' \in BOOLEAN ELSE result' = d.ok

SymbolGetType ==
    \E n \in SymbolNames :
        /\ SymbolCall(<<"getType", n>>)
        /\ result' = getType(parser.sym, n)
        /\ UNCHANGED parser

SymbolExists ==
    \E n \in SymbolNames :
        /\ SymbolCall(<<"exists", n>>)
        /\ result' = exists(parser.sym, n)
        /\ UNCHANGED parser

SymbolNext ==
    SymbolPushScope \/ SymbolPopScope \/ SymbolDeclare \/ SymbolGetType \/ SymbolExists

SpecSymbolTable == SymbolInit /\ [][SymbolNext]_vars

(* C16: after any sequence of pushScope, popScope and declare the vector   *)
(* of scopes still holds the global scope: popScope does nothing when      *)
(* only the global scope is left, and declare always has a scope to        *)
(* insert into.                                                             *)
C16_GlobalScopeStays ==
    /\ Len(parser.sym) >= 1
    /\ ~parser.ub

(* The innermost scope of the vector scopes holds the name n.               *)
InInnermost(scopes, n) == scopes # <<>> /\ InScope(scopes[Len(scopes)], n)

(* C17: declare(name, type) returns false exactly when the name is in the  *)
(* innermost scope, and then changes nothing; otherwise it returns true    *)
(* and adds the entry to the innermost scope only, every outer scope as    *)
(* it was, also when an outer scope holds the name.                         *)
C17_DeclareReturnAndFrame ==
    source[1] = "declare" =>
        LET n == source[2]
            before == tokens
            after == parser.sym
        IN  IF InInnermost(before, n)
            THEN result = FALSE /\ after = before
            ELSE /\ result = TRUE
                 /\ Len(after) = Len(before)
                 /\ Len(after) >= 1
                 /\ \A i \in 1..(Len(before) - 1) : after[i] = before[i]
                 /\ DOMAIN after[Len(after)] = DOMAIN before[Len(before)] \cup {n}
                 /\ after[Len(after)][n].type = source[3]
                 /\ \A m \in DOMAIN before[Len(before)] :
                       after[Len(after)][m] = before[Len(before)][m]

(* The type of the innermost declaration of n in scopes, "UNKNOWN" if it   *)
(* is declared in none.                                                     *)
InnermostType(scopes, n) ==
    LET found == {i \in 1..Len(scopes) : InScope(scopes[i], n)} IN
    IF found = {} THEN Ty("UNKNOWN")
    ELSE scopes[CHOOSE i \in found : \A j \in found : j <= i][n].type

(* C18: for the name of a standard-library function exists is true and     *)
(* getType is the library's type "function" whatever the scopes hold, a    *)
(* declaration of the same name included; for any other name getType is    *)
(* the type of the innermost declaration, "UNKNOWN" exactly when no scope  *)
(* declares it.                                                             *)
C18_LibraryNamesNotShadowed ==
    /\ source[1] = "exists" =>
          result = (isStandardFunction(source[2])
                    \/ \E i \in 1..Len(tokens) : InScope(tokens[i], source[2]))
    /\ source[1] = "getType" =>
          result = (IF isStandardFunction(source[2]) THEN Ty("function")
                    ELSE InnermostType(tokens, source[2]))

(* C19: the parser's pushScope and popScope are balanced on every path,    *)
(* the error paths included: whenever the parse of a declaration or a      *)
(* statement at file scope has returned, and when parseProgram has, the    *)
(* vector of scopes holds the global scope only and scopeDepth is 0.       *)
C19_ScopesBalanced ==
    pc \in {"parse", "done"} =>
        /\ Len(parser.sym) = 1
        /\ parser.scopeDepth = 0
        /\ ~parser.ub

(* A function definition with an error in its parameters and a block in   *)
(* its body has been analysed.                                              *)
C19_Witness ==
    /\ pc = "done"
    /\ source = HeadUnnamedParameter \o Body(<<BlockDeclIntX>>)
    /\ "Expected parameter name" \in {result.syntaxErrors[i].text : i \in 1..Len(result.syntaxErrors)}
    /\ Len(parser.sym) = 1

(* parseProgram as a whole: the loop of ParseProgramStep, ended as by      *)
(* ParseProgramExit.                                                        *)
RECURSIVE parseProgram(_)
parseProgram(P) ==
    IF P.stalled THEN P
    ELSE IF curr(P).type # "TOK_EOF" /\ P.ret < maxIter
    THEN parseProgram(NextIteration(P, Call("ProgramItem", P, <<>>)))
    ELSE AfterLoop(P)

(* The tokens toks without the error tokens of the lexer.                   *)
WithoutErrorTokens(toks) == SelectSeq(toks, LAMBDA t : t.type # "TOK_ERROR")

(* The source is a text at file scope without braces, or a function main   *)
(* whose body has every fragment on a line of its own, so that an error    *)
(* token stands at file scope or between two statements of a block.        *)
ErrorTokenBetweenStatements ==
    \/ source \in Strings(CharAlphabet, MaxLen)
    \/ \E fs \in FragmentSeqs(MaxStmts) : source = Program(fs, TRUE)

(* C20: an error token of the lexer that reaches the parser is skipped     *)
(* alone and the tokens after it are analysed as if it were absent: the    *)
(* syntax diagnostics are those of the same tokens without the error       *)
(* token, at file scope and between the statements of a block.             *)
C20_ErrorTokenSkipped ==
    (pc = "done" /\ ErrorTokenBetweenStatements) =>
        result.syntaxErrors =
            parseProgram([NewParser(WithoutErrorTokens(tokens)) EXCEPT !.ret = 0]).errors

-----------------------------------------------------------------------------
(* Properties of the loops of the parser.                                   *)

(* forceAdvance on the parser D that the dispatched rule of an iteration   *)
(* begun at P returned: it adds a diagnostic, "Skipping invalid token",    *)
(* exactly when the rule left the index of P, then adds one to the index,  *)
(* and the iteration ends ahead of P.                                       *)
SkipsExactlyWhenStuck(P, D) ==
    LET Q == forceAdvance(D) IN
    /\ Len(Q.errors) > Len(D.errors) <=> D.index = P.index
    /\ D.index = P.index => Q.index = P.index + 1
    /\ D.index > P.index => Q = [D EXCEPT !.lastIndex = D.index]
    /\ Q.index > P.index

(* C21: in an iteration of the loop of parseProgram the guard records      *)
(* "Skipping invalid token" and advances by one exactly when the rule      *)
(* dispatched left the cursor where the iteration began; an iteration      *)
(* whose rule consumed a token, a nested block included, records none,     *)
(* and every iteration ends with the cursor ahead of where it began.       *)
C21_SkipExactlyWhenCursorStood ==
    (pc = "parse" /\ ~parser.stalled /\ curr(parser).type # "TOK_EOF" /\ parser.ret < maxIter)
        => SkipsExactlyWhenStuck(parser, Call("ProgramDispatch", parser, <<>>))

-----------------------------------------------------------------------------
(* The loop control of a scan, parseProgram's and parseBlock's alike,      *)
(*   while (curr() is not the end && iter++ < maxIter) { ... }             *)
(*   if (iter >= maxIter) the abort diagnostic;                             *)
(* on long inputs.  Here source is [size, stride]: size tokens stand       *)
(* before the end of the scan (EOF, or the '}' of the block) and every     *)
(* iteration consumes stride of them; parser is [index, iter, aborts],     *)
(* the index, the local iter and the number of abort diagnostics.           *)

ScanSizes == {0, 1, maxIter - 1, maxIter, maxIter + 1, 2 * maxIter}

ScanInit ==
    /\ source \in {[size |-> n, stride |-> k] : n \in ScanSizes, k \in {1, 2}}
    /\ pc = "scan"
    /\ lexer = <<>>
    /\ tokens = <<>>
    /\ parser = [index |-> 0, iter |-> 0, aborts |-> 0]
    /\ result = <<>>

(* The scan is at its end: curr() is EOF, or the '}' of the block.          *)
AtEnd == parser.index >= source.size

(* The test of the while is true and the body runs.                         *)
ScanIteration ==
    /\ pc = "scan"
    /\ ~AtEnd
    /\ parser.iter < maxIter
    /\ parser' = [parser EXCEPT !.iter = @ + 1, !.index = @ + source.stride]
    /\ UNCHANGED <<source, pc, lexer, tokens, result>>

(* iter when the test of the while has failed: "iter++ < maxIter" is       *)
(* evaluated, and iter incremented, only when the scan is not at its end.  *)
IterAfterLoop == IF AtEnd THEN parser.iter ELSE parser.iter + 1

ScanExit ==
    /\ pc = "scan"
    /\ AtEnd \/ ~(parser.iter < maxIter)
    /\ parser' = [parser EXCEPT !.iter = IterAfterLoop,
                                !.aborts = IF IterAfterLoop >= maxIter THEN @ + 1 ELSE @]
    /\ pc' = "scanned"
    /\ UNCHANGED <<source, lexer, tokens, result>>

ScanNext == ScanIteration \/ ScanExit

SpecScan == ScanInit /\ [][ScanNext]_vars

(* C22: a scan records the abort diagnostic exactly when it stopped at     *)
(* the iteration cap with tokens left, and then once; a scan that          *)
(* reached EOF or the closing '}' records none, whatever the number of     *)
(* its iterations.                                                          *)
C22_AbortExactlyWhenCapExceeded ==
    pc = "scanned" =>
        parser.aborts = (IF parser.index < source.size THEN 1 ELSE 0)

-----------------------------------------------------------------------------
(* Function declarations in the body of a function.                        *)

(* The tokens ahead of the cursor are "int main ( ) {".                     *)
MainAhead(P) ==
    /\ P.index + 5 <= Len(P.tokens)
    /\ [i \in 1..5 |-> P.tokens[P.index + i].type]
           = <<"KW_INT", "TOK_IDENTIFIER", "LPAREN", "RPAREN", "LBRACE">>
    /\ ValueOf(P.tokens[P.index + 2]) = "main"

(* The parser when the loop of parseBlock begins its first iteration in    *)
(* the body of that main: parseProgram, parseDeclOrFunc and parseFunction  *)
(* have brought it there.                                                   *)
InMain(P) ==
    LET B == expect(FunctionHead(advance(advance(P)), "main", curr(advance(P))), "LBRACE", "{")
    IN  [B EXCEPT !.lastIndex = B.index]

(* The tokens ahead of the cursor are a type, a name and '('.                *)
FunctionAhead(P) ==
    /\ isTypeToken(P, curr(P))
    /\ curr(P).type # "KW_STRUCT"
    /\ curr(advance(P)).type = "TOK_IDENTIFIER"
    /\ curr(advance(advance(P))).type = "LPAREN"

(* The first of toks[i..] that is of one of the types, Len(toks) + 1 if     *)
(* none is.                                                                 *)
RECURSIVE FirstOf(_, _, _)
FirstOf(toks, types, i) ==
    IF i > Len(toks) \/ toks[i].type \in types THEN i ELSE FirstOf(toks, types, i + 1)

(* The '}' among toks[i..] that closes the d braces open before toks[i],   *)
(* or the EOF token if none does.                                           *)
RECURSIVE ClosingBrace(_, _, _)
ClosingBrace(toks, i, d) ==
    IF i > Len(toks) \/ toks[i].type = "TOK_EOF" THEN i
    ELSE IF toks[i].type = "RBRACE" /\ d = 1 THEN i
    ELSE ClosingBrace(toks, i + 1,
                      IF toks[i].type = "LBRACE" THEN d + 1
                      ELSE IF toks[i].type = "RBRACE" THEN d - 1
                      ELSE d)

(* The token that ends the declaration whose '(' is toks[i]: its ';', or   *)
(* the '}' that matches the '{' of its body; the EOF token if it has none. *)
DeclarationEnd(toks, i) ==
    LET t == FirstOf(toks, {"SEMICOLON", "LBRACE", "TOK_EOF"}, i) IN
    IF t <= Len(toks) /\ toks[t].type = "LBRACE" THEN ClosingBrace(toks, t + 1, 1) ELSE t

Terminated(toks, i) ==
    DeclarationEnd(toks, i) <= Len(toks) /\ toks[DeclarationEnd(toks, i)].type # "TOK_EOF"

(* B is the parser before a function declaration in a block and D the      *)
(* parser after parseDeclOrFunc has handled it.                             *)
NestedFunctionSkipped(B, D) ==
    LET nameTok == curr(advance(B)) IN
    /\ D.errors = Append(B.errors,
                         SynDiag("Line", nameTok.line, nameTok.column,
                                 "Invalid: nested function declaration '" \o ValueOf(nameTok) \o "'",
                                 "SUGGESTION: C does not support nested functions. Move to file scope"))
    /\ D.sym = B.sym
    /\ D.scopeDepth = B.scopeDepth
    /\ D.index = IF Terminated(B.tokens, B.index + 3)
                 THEN DeclarationEnd(B.tokens, B.index + 3)
                 ELSE DeclarationEnd(B.tokens, B.index + 3) - 1

NestedFunctionCase(P) == MainAhead(P) /\ FunctionAhead(InMain(P))

(* C23: a function declaration met at a nesting depth above 0 gets the     *)
(* nested-function diagnostic at its name and nothing else, and is skipped *)
(* whole: the scopes and their symbols are what they were (no scope is     *)
(* pushed, neither the name nor a parameter is declared), scopeDepth is    *)
(* what it was, and the cursor is just after the ';' of the declaration or *)
(* the '}' that matches the '{' of its body (at the end of the input when  *)
(* the declaration has neither).                                            *)
C23_NestedFunctionSkipped ==
    (pc = "parse" /\ parser.scopeDepth = 0 /\ NestedFunctionCase(parser))
        => /\ InMain(parser).scopeDepth > 0
           /\ NestedFunctionSkipped(InMain(parser), Call("parseDeclOrFunc", InMain(parser), <<>>))

(* The nested function has parameters and a body with a block in it, and   *)
(* its '}' is not the last of the input.                                    *)
C23_Witness ==
    /\ pc = "parse"
    /\ source = MainOpen \o HeadVoid \o Body(<<BlockDeclIntX>>) \o <<"}">> \o <<"\n", "}">>
    /\ NestedFunctionCase(parser)
    /\ Terminated(tokens, InMain(parser).index + 3)
    /\ tokens[DeclarationEnd(tokens, InMain(parser).index + 3) + 1].type = "RBRACE"

-----------------------------------------------------------------------------
(* Character literals.                                                      *)

(* The literal whose opening quote is s[i - 1], read from s[i]: closed     *)
(* tells whether its closing quote is met before a newline or the end of   *)
(* the input, a backslash taking the next character with it, and chars is  *)
(* the number of its logical characters, an escape being one.              *)
RECURSIVE CharLiteral(_, _, _)
CharLiteral(s, i, n) ==
    IF i > Len(s) \/ s[i] = NUL \/ s[i] = "\n" THEN [closed |-> FALSE, chars |-> n]
    ELSE IF s[i] = "'" THEN [closed |-> TRUE, chars |-> n]
    ELSE IF s[i] = "\\" /\ i < Len(s) /\ s[i + 1] # NUL THEN CharLiteral(s, i + 2, n + 1)
    ELSE CharLiteral(s, i + 1, n + 1)

(* The lexical errors that getNextToken has added to those of L.           *)
NewLexErrors(L, R) == SubSeq(R.L.errors, Len(L.errors) + 1, Len(R.L.errors))

(* L is at the opening quote of a closed character literal and R is what   *)
(* getNextToken returns there.                                              *)
CharLiteralChecked(L, R) ==
    LET c == CharLiteral(L.input, L.pos + 2, 0) IN
    c.closed =>
        [i \in DOMAIN NewLexErrors(L, R) |-> NewLexErrors(L, R)[i].text]
            = IF c.chars = 0 THEN <<"Empty character literal">>
              ELSE IF c.chars = 1 THEN <<>>
              ELSE <<"Multi-character constant">>

(* C24: in a closed character literal an escape sequence is one logical    *)
(* character: a literal of one plain character or one escape gets no       *)
(* error, an empty one "Empty character literal", and one of more logical  *)
(* characters "Multi-character constant".                                   *)
C24_EscapeIsOneCharacter ==
    (pc = "lex" /\ currentChar(lexer) = "'") => CharLiteralChecked(lexer, getNextToken(lexer))

-----------------------------------------------------------------------------
(* Numeric literals.                                                        *)

(* The length of the longest prefix of s[i..] made of characters of set.   *)
RECURSIVE Run(_, _, _)
Run(s, i, set) == IF i <= Len(s) /\ s[i] \in set THEN 1 + Run(s, i + 1, set) ELSE 0

(* s is digits, an optional '.' with digits, and an optional exponent: 'e' *)
(* or 'E', an optional sign, digits.                                        *)
IsNumber(s) ==
    LET d1 == Run(s, 1, Digit)
        i2 == IF d1 < Len(s) /\ s[d1 + 1] = "." THEN d1 + 2 + Run(s, d1 + 2, Digit) ELSE d1 + 1
        hasExp == i2 <= Len(s) /\ s[i2] \in {"e", "E"}
        i3 == IF i2 < Len(s) /\ s[i2 + 1] \in {"+", "-"} THEN i2 + 2 ELSE i2 + 1
    IN  /\ d1 >= 1
        /\ IF hasExp THEN Run(s, i3, Digit) >= 1 /\ i3 + Run(s, i3, Digit) = Len(s) + 1
           ELSE i2 = Len(s) + 1

Dots(s, n) == Cardinality({i \in 1..n : s[i] = "."})

(* L is at the first character of the input s, a digit, and R is what      *)
(* getNextToken returns there.                                              *)
NumberLexed(s, L, R) ==
    LET run == Run(s, 1, Digit \cup {"."})
        texts == [i \in DOMAIN NewLexErrors(L, R) |-> NewLexErrors(L, R)[i].text]
        alphaNext == run < Len(s) /\ isalpha(s[run + 1])
    IN  /\ IsNumber(s) =>
              /\ R.tok.type = "TOK_NUMBER"
              /\ R.tok.value = s
              /\ texts = <<>>
        /\ Cardinality({i \in DOMAIN texts :
                           texts[i] = "Invalid numeric literal: multiple decimal points"})
               = IF Dots(s, run) > 1 THEN Dots(s, run) - 1 ELSE 0
        /\ (alphaNext /\ ~IsNumber(s)) =>
              /\ Cardinality({i \in DOMAIN texts : texts[i] = "Invalid numeric literal"}) = 1
              /\ R.tok.value = SubSeq(s, 1, run + Run(s, run + 1, Digit \cup Alpha))

(* C25: a literal of digits, an optional single '.' and an optional        *)
(* exponent is one number token without an error; every '.' after the      *)
(* first adds "Invalid numeric literal: multiple decimal points"; an       *)
(* alphabetic character right after the literal adds "Invalid numeric      *)
(* literal", and the run of letters and digits is part of the same token.  *)
C25_NumericLiterals ==
    (pc = "lex" /\ lexer.pos = 0 /\ isdigit(currentChar(lexer)))
        => NumberLexed(source, lexer, getNextToken(lexer))

-----------------------------------------------------------------------------
(* TypeSystem: its two static functions applied to pairs of types.  Here   *)
(* source is [lhs, rhs, op], pc tells which function has returned, and     *)
(* result is what it returned.                                              *)

TypeNames ==
    {Ty("int"), Ty("float"), Ty("double"), Ty("char"), Ty("void"), Ty("long"), Ty("short"),
     Ty("string"), <<"char", "*">>, <<"int", "*">>, <<"void", "*">>, <<"struct ", "S">>}

Arithmetic == {"+", "-", "*", "/"}

Comparison == {"==", "!=", "<", ">", "<=", ">="}

Operators == Arithmetic \cup Comparison \cup {"&&", "||", "&", "%"}

TypesInit ==
    /\ source \in [lhs : TypeNames, rhs : TypeNames, op : Operators]
    /\ pc = "types"
    /\ lexer = <<>>
    /\ tokens = <<>>
    /\ parser = <<>>
    /\ result = <<>>

TypesCompatible ==
    /\ pc = "types"
    /\ result' = areTypesCompatible(source.lhs, source.rhs)
    /\ pc' = "compatible"
    /\ UNCHANGED <<source, lexer, tokens, parser>>

OperationResultType ==
    /\ pc = "types"
    /\ result' = getOperationResultType(source.lhs, source.rhs, source.op)
    /\ pc' = "operation"
    /\ UNCHANGED <<source, lexer, tokens, parser>>

TypesNext == TypesCompatible \/ OperationResultType

SpecTypes == TypesInit /\ [][TypesNext]_vars

Arithmetics == {Ty("int"), Ty("float"), Ty("double")}

(* C26: areTypesCompatible(target, source) is true for every pair of int,  *)
(* float and double in either direction and whenever target and source     *)
(* are equal, false when exactly one of the two is void, and a char target *)
(* is compatible with a char source only.                                   *)
C26_NumericTypesCompatible ==
    pc = "compatible" =>
        /\ (source.lhs \in Arithmetics /\ source.rhs \in Arithmetics) => result
        /\ source.lhs = source.rhs => result
        /\ (isVoid(source.lhs) # isVoid(source.rhs)) => ~result
        /\ isChar(source.lhs) => (result <=> isChar(source.rhs))

(* The widest of two numeric types: double before float before int.        *)
Widest(lhs, rhs) ==
    IF Ty("double") \in {lhs, rhs} THEN Ty("double")
    ELSE IF Ty("float") \in {lhs, rhs} THEN Ty("float")
    ELSE Ty("int")

(* One of the two is string and the other string or char*.                  *)
StringOperands(lhs, rhs) ==
    \/ lhs = Ty("string") /\ rhs \in {Ty("string"), <<"char", "*">>}
    \/ rhs = Ty("string") /\ lhs \in {Ty("string"), <<"char", "*">>}

(* C27: for + - * / on numeric operands getOperationResultType returns the *)
(* widest of the two, double before float before int, whatever their       *)
(* order; on other operands it returns "INVALID", but for "string", which  *)
(* it returns only under '+' with a string operand whose other operand is  *)
(* a string or a char*.                                                     *)
C27_ArithmeticResultIsWidest ==
    (pc = "operation" /\ source.op \in Arithmetic) =>
        IF source.lhs \in numericTypes /\ source.rhs \in numericTypes
        THEN result = Widest(source.lhs, source.rhs)
        ELSE /\ result \in {Ty("INVALID"), Ty("string")}
             /\ result = Ty("string") => source.op = "+" /\ StringOperands(source.lhs, source.rhs)

-----------------------------------------------------------------------------
(* Calls of library functions.                                              *)

Variadic == {"printf", "scanf"}

FixedArity == {"malloc", "free", "strlen"}

(* The parameters a call has to supply: those of the signature before its  *)
(* "...", one for each of the five functions.                               *)
FixedParameters == 1

(* n arguments do not fit the signature of the function.                   *)
Inconsistent(name, n) ==
    \/ name \in FixedArity /\ n # FixedParameters
    \/ name \in Variadic /\ n < FixedParameters

MismatchesOf(errs, name) ==
    Reported(errs, "Function call argument count mismatch for '" \o name \o "'")

(* C28: a call of a library function with a registered signature is        *)
(* reported with an argument count mismatch exactly when the number of its *)
(* arguments does not fit the signature: for malloc, free and strlen when  *)
(* it is not the number of the parameters, for printf and scanf only when  *)
(* it is less than the number of the parameters before "...".              *)
C28_ArgumentCountMismatch ==
    pc = "done" =>
        \A name \in LibraryNames, n \in 0..MaxLen :
            (source = LibraryCall(name, n) /\ Render(name) \in DOMAIN functionSignatures)
                => MismatchesOf(result.syntaxErrors, Render(name))
                       = IF Inconsistent(Render(name), n) THEN 1 ELSE 0

-----------------------------------------------------------------------------
(* MainWindow: the editor, the timer analyzeTimer and the error table.      *)
(* Here source is the text of the editor, lexer is the timer, [active,      *)
(* elapsed] with elapsed the milliseconds since it was started, parser is   *)
(* [isModified, currentFilePath], pc is the message of the status bar,      *)
(* result is what is displayed, [rows, errorCount], and tokens counts the   *)
(* events: edits, the changes of the text so far, runs, the returns of      *)
(* runAnalyzerPipeline since the last of them, and calls, the calls of      *)
(* analyzeCode.                                                             *)

(* analyzeTimer->setInterval(500).                                          *)
Interval == 500

(* The milliseconds that pass in one step of time.                          *)
TickMs == 250

MaxEdits == 3

(* The text the constructor puts into the editor.                           *)
SampleCode ==
    <<"#", "i", "n", "c", "l", "u", "d", "e", " ", "<", "s", "t", "d", "i", "o", ".", "h", ">", "\n",
      "\n",
      "i", "n", "t", " ", "m", "a", "i", "n", "(", ")", " ", "{", "\n",
      " ", " ", " ", " ", "i", "n", "t", " ", "x", " ", "=", " ", "1", "0", ";", "\n",
      " ", " ", " ", " ", "i", "n", "t", " ", "y", " ", "=", " ", "2", "0", ";", "\n",
      " ", " ", " ", " ", "\n",
      " ", " ", " ", " ", "p", "r", "i", "n", "t", "f", "(", "\"", "S", "u", "m", ":", " ", "%", "d", "\\", "n", "\"", ",", " ", "x", " ", "+", " ", "y", ")", ";", "\n",
      " ", " ", " ", " ", "r", "e", "t", "u", "r", "n", " ", "0", ";", "\n",
      "}", "\n">>

(* What the user makes of the text, and what a file holds.                  *)
EditorTexts == {<<>>, DeclIntX, InvalidChar, DeclIntXFloat}

(* tokenizeAll, and analyzeCode of a fresh engine, as a whole.              *)
RECURSIVE tokenizeAll(_, _)
tokenizeAll(L, toks) ==
    LET R == getNextToken(L) IN
    IF R.tok.type = "TOK_EOF" THEN [L |-> R.L, tokens |-> Append(toks, R.tok)]
    ELSE tokenizeAll(R.L, Append(toks, R.tok))

analyzeCode(code) ==
    LET T == tokenizeAll(ConstructLexer(<<>>, code), <<>>) IN
    AnalysisResult(T.L, parseProgram(ConstructParser(<<>>, T.tokens)))

(* The row of a lexical and of a syntax error: line and column are those   *)
(* of the first "Line L:C" of the message, 1 and 1 if it has none, and the *)
(* suggestion, if there is one, follows the message.                        *)
LexRow(d) ==
    [line |-> d.line, column |-> d.column,
     message |-> "Line " \o ToString(d.line) \o ":" \o ToString(d.column) \o " - " \o d.text,
     suggestion |-> ""]

SynRow(d) ==
    [line |-> IF d.prefix = "" THEN 1 ELSE d.line,
     column |-> IF d.prefix = "" THEN 1 ELSE d.column,
     message |-> IF d.prefix = "" THEN d.text
                 ELSE d.prefix \o " " \o ToString(d.line) \o ":" \o ToString(d.column)
                          \o " - " \o d.text,
     suggestion |-> d.suggestion]

(* displayErrors, and the label runAnalyzerPipeline sets after it.         *)
displayErrors(r) ==
    [rows |-> [i \in DOMAIN r.lexicalErrors |-> LexRow(r.lexicalErrors[i])]
                 \o [i \in DOMAIN r.syntaxErrors |-> SynRow(r.syntaxErrors[i])],
     errorCount |-> Len(r.lexicalErrors) + Len(r.syntaxErrors)]

clearAll == [rows |-> <<>>, errorCount |-> 0]

(* analyzeTimer->stop(); analyzeTimer->start(), with the time that has     *)
(* elapsed kept.                                                            *)
RestartTimer_Running(t) == [t EXCEPT !.active = TRUE]

RestartTimer(t) == [active |-> TRUE, elapsed |-> 0]

(* The slot onEditorTextChanged: T is the event counter.                    *)
TextChanged(T) == [T EXCEPT !.edits = @ + 1, !.runs = 0]

(* The constructor: the connections are made before the sample is set, so  *)
(* that onEditorTextChanged has run once.                                   *)
GuiInit ==
    /\ source = SampleCode
    /\ lexer = RestartTimer([active |-> FALSE, elapsed |-> 0])
    /\ parser = [isModified |-> TRUE, currentFilePath |-> ""]
    /\ pc = "Ready"
    /\ result = clearAll
    /\ tokens = [edits |-> 0, runs |-> 0, calls |-> 0]

(* The user changes the text: textChanged, and onEditorTextChanged.         *)
OnEditorTextChanged ==
    /\ tokens.edits < MaxEdits
    /\ source' \in EditorTexts \ {source}
    /\ lexer' = RestartTimer(lexer)
    /\ parser' = [parser EXCEPT !.isModified = TRUE]
    /\ pc' = "Analyzing..."
    /\ tokens' = TextChanged(tokens)
    /\ UNCHANGED result

(* newFile, the dialog not cancelled: clear() changes the text (it may     *)
(* emit no textChanged when the editor is empty already).                   *)
NewFile ==
    /\ tokens.edits < MaxEdits
    /\ source' = <<>>
    /\ \E emitted \in (IF source = <<>> THEN BOOLEAN ELSE {TRUE}) :
          /\ lexer' = IF emitted THEN RestartTimer(lexer) ELSE lexer
          /\ tokens' = IF emitted THEN TextChanged(tokens)
                       ELSE [tokens EXCEPT !.edits = @ + 1]
    /\ parser' = [isModified |-> FALSE, currentFilePath |-> ""]
    /\ result' = clearAll
    /\ pc' = "New file"

(* openFile of a file that can be opened: setPlainText changes the text.   *)
OpenFile ==
    /\ tokens.edits < MaxEdits
    /\ \E p \in DOMAIN Files :
          /\ source' = Files[p]
          /\ parser' = [isModified |-> FALSE, currentFilePath |-> p]
          /\ pc' = "Opened: " \o p
    /\ lexer' = RestartTimer(lexer)
    /\ tokens' = TextChanged(tokens)
    /\ UNCHANGED result

(* Time passes while the timer runs.                                        *)
GuiTick ==
    /\ lexer.active
    /\ lexer.elapsed < Interval
    /\ lexer' = [lexer EXCEPT !.elapsed = IF @ + TickMs > Interval THEN Interval ELSE @ + TickMs]
    /\ UNCHANGED <<source, pc, tokens, parser, result>>

(* The single-shot timer expires: it stops and emits timeout.               *)
Timeout ==
    /\ lexer.active
    /\ lexer.elapsed >= Interval
    /\ lexer' = [lexer EXCEPT !.active = FALSE]

(* The slot of timeout: runAnalyzerPipeline.                                *)
RunAnalyzerPipeline ==
    /\ Timeout
    /\ IF source = <<>>
       THEN /\ result' = clearAll
            /\ pc' = "Ready - No code to analyze"
            /\ tokens' = [tokens EXCEPT !.runs = @ + 1]
       ELSE /\ result' = displayErrors(analyzeCode(source))
            /\ pc' = IF result'.errorCount = 0 THEN "No errors detected" ELSE "Found error(s)"
            /\ tokens' = [tokens EXCEPT !.runs = @ + 1, !.calls = @ + 1]
    /\ UNCHANGED <<source, parser>>

GuiNext == OnEditorTextChanged \/ NewFile \/ OpenFile \/ GuiTick \/ RunAnalyzerPipeline

SpecGui == GuiInit /\ [][GuiNext]_vars

(* The event loop delivers the timeout of a timer that has expired, and    *)
(* time passes.                                                             *)
SpecGuiFair == SpecGui /\ WF_vars(GuiTick) /\ WF_lexer(Timeout)

(* What the display is to show for the text.                                *)
Shown(text) == IF text = <<>> THEN clearAll ELSE displayErrors(analyzeCode(text))

(* A step that changes the text starts the timer anew.                      *)
TextChangeRestartsTimer ==
    source' # source => lexer' = [active |-> TRUE, elapsed |-> 0]

(* A step in which the pipeline runs is taken only Interval after the last *)
(* change of the text, it is the only run since that change, it shows the  *)
(* analysis of the text of that moment, and it calls analyzeCode once, or  *)
(* not at all and clears the display when the text is empty.               *)
RunsOnceAfterQuiet ==
    tokens'.runs > tokens.runs =>
        /\ lexer.active /\ lexer.elapsed >= Interval
        /\ tokens'.runs = 1
        /\ source' = source
        /\ result' = Shown(source)
        /\ tokens'.calls = tokens.calls + (IF source = <<>> THEN 0 ELSE 1)

(* C29: every change of the text restarts the single-shot timer of 500 ms, *)
(* so that the pipeline never runs while changes arrive less than 500 ms   *)
(* apart; when 500 ms have passed without a change it runs exactly once,   *)
(* on the text of that moment, and an empty text clears the display        *)
(* without a call of the analyzer; eventually the pipeline has run and the *)
(* display is that of the final text (the timer is at rest in the end, and *)
(* whenever it is at rest the display is that of the text).                 *)
C29_DebouncedAnalysis ==
    /\ [][TextChangeRestartsTimer /\ RunsOnceAfterQuiet]_vars
    /\ [](~lexer.active => tokens.runs = 1 /\ result = Shown(source))
    /\ <>[](~lexer.active)

(* The user has changed the text to one with a lexical error, 500 ms have  *)
(* passed, and the pipeline has run and shows the error.                    *)
C29_Witness ==
    /\ source = InvalidChar
    /\ ~lexer.active
    /\ tokens.edits > 0
    /\ tokens.runs = 1
    /\ result.errorCount > 0
    /\ result = Shown(source)

(* C30: the result type of a comparison (== != < > <= >=) does not depend  *)
(* on the order of its operands.                                            *)
C30_ComparisonSymmetric ==
    (pc = "operation" /\ source.op \in Comparison) =>
        result = getOperationResultType(source.rhs, source.lhs, source.op)

====
